---------------------------- MODULE Spec2Model ----------------------------
(***************************************************************************)
(* The graph-analytics pipeline of the NetworkGraph component              *)
(* (src/frontend/src/App.tsx): processNetworkData (leaf condenser), the    *)
(* edge normalization of the render effect, findAllCliques and             *)
(* getNodeCliqueMemberships.                                               *)
(*                                                                         *)
(* Node ids are strings in the program.  They are modelled by integers:    *)
(* the program only compares ids for equality and, in                      *)
(* [sourceId, targetId].sort(), by a total order; the order of the         *)
(* integers stands for the string order.  A JavaScript Set or Map is       *)
(* modelled by a sequence without repetition where the program iterates    *)
(* it (insertion order) and by a set where it only tests membership.       *)
(***************************************************************************)
EXTENDS Integers, Sequences, FiniteSets, TLC

VARIABLES
    pc,                \* which step of the pipeline has run
    data,              \* the raw snapshot handed to the component: [nodes, links]
    hideLeafNodes,     \* the "hide leaf nodes" option used by the last processNetworkData
    processedData,     \* processNetworkData(data, hideLeafNodes)
    reprocessedData,   \* processNetworkData applied to processedData
    nodes,             \* the node list handed to the clique finder; in the component,
                       \* the node objects of the running simulation
    originalLinks,     \* the directed edge list handed to the edge normalization
    links,             \* the normalized edge list
    cliqueMemberships, \* the result of getNodeCliqueMemberships(nodes, links)
    showComponents,    \* the "show cliques" option
    isInitialRender,   \* isInitialRender.current
    currentNodePositions, \* currentNodePositions.current: node id -> {x, y}
    optimalPositions,  \* the position map the last effect read its coordinates from
    plannerCalled,     \* whether the last effect called calculateOptimalPositions
    handedNodes,       \* the nodes as the last effect passed them to d3.forceSimulation
    componentColors,   \* the colour table of the last effect
    linkHints,         \* per link of links: the distance and strength given to d3.forceLink
    dragSubject,       \* the index in nodes of the node being dragged, 0 when none is
    ticks,             \* the simulation ticks so far
    drags,             \* the drag gestures so far
    callStack,         \* the activations of findCliques, the running one last
    heap,              \* the Set objects findAllCliques has created, by reference
    foundCliques       \* findAllCliques' (cliques, cliqueId)

\* the state of the pipeline steps
pipelineVars == <<pc, data, hideLeafNodes, processedData, reprocessedData, nodes,
                  originalLinks, links, cliqueMemberships>>

\* the state that only the mounted component has
renderVars == <<showComponents, isInitialRender, currentNodePositions, optimalPositions,
                plannerCalled, handedNodes, componentColors, linkHints, dragSubject,
                ticks, drags>>

\* the state of a findAllCliques call that is run step by step
searchVars == <<callStack, heap, foundCliques>>

vars == <<pipelineVars, renderVars, searchVars>>

-----------------------------------------------------------------------------
(* Program constants and bounds of the model *)

\* const COLIN_USER_ID = "pfy59smofvvr5brx5cjt5sy2l": the root account
COLIN_USER_ID == 1

\* id: 'CONDENSED_LEAVES': the id of the condensed placeholder node
CONDENSED_LEAVES == 0

\* the largest node list handed to the clique finder
MaxCliqueNodes == 5

-----------------------------------------------------------------------------
(* Generic helpers for insertion-ordered collections *)

Range(s) == { s[i] : i \in 1..Len(s) }

\* Set.prototype.add on an insertion-ordered set
SetAdd(s, x) == IF x \in Range(s) THEN s ELSE Append(s, x)

\* Set.prototype.delete on an insertion-ordered set
SetDelete(s, x) == SelectSeq(s, LAMBDA y : y # x)

\* the elements of a finite set of integers in increasing order
RECURSIVE SortedSeq(_)
SortedSeq(S) ==
    IF S = {} THEN <<>>
    ELSE LET m == CHOOSE x \in S : \A y \in S : x <= y
         IN  <<m>> \o SortedSeq(S \ {m})

\* a raw graph node: {id, username, ...} (the counters play no part in the pipeline)
GraphNode(id) == [id |-> id, username |-> <<"user", id>>]

NodeIds(nodeList) == { nodeList[i].id : i \in 1..Len(nodeList) }

-----------------------------------------------------------------------------
(* findAllCliques *)

\* adjacencyList: node id -> Set of neighbour ids, for the ids of the node list;
\* adjacencyList.get(x)?.add(y) does nothing for an id x outside the node list
adjacencyList(nodeList, linkList) ==
    [ n \in NodeIds(nodeList) |->
        { linkList[i].target : i \in { j \in 1..Len(linkList) : linkList[j].source = n } }
        \cup
        { linkList[i].source : i \in { j \in 1..Len(linkList) : linkList[j].target = n } } ]

\* adjacencyList.get(id) || new Set()
neighborsOf(adj, id) == IF id \in DOMAIN adj THEN adj[id] ELSE {}

\* a variant that ends a branch as soon as no candidate is left
branchDone_IgnoresExcluded(candidates, excluded) == Len(candidates) = 0

\* if (candidates.size === 0 && excluded.size === 0)
branchDone(candidates, excluded) == Len(candidates) = 0 /\ Len(excluded) = 0

\* a variant that also reports a plain edge
reportsClique_FromTwo(currentClique) == Cardinality(currentClique) >= 2

\* if (currentClique.size >= 3)
reportsClique(currentClique) == Cardinality(currentClique) >= 3

\* const pivot = candidates.size > 0 ? Array.from(candidates)[0] : Array.from(excluded)[0]
choosePivot(candidates, excluded) ==
    IF Len(candidates) > 0 THEN candidates[1] ELSE excluded[1]

\* a variant with the pivot test inverted
skipsCandidate_Inverted(pivotNeighbors, candidate) == candidate \notin pivotNeighbors

\* if (pivotNeighbors.has(candidate)) return;
skipsCandidate(pivotNeighbors, candidate) == candidate \in pivotNeighbors

\* cliques.set(cliqueId++, new Set(currentClique))
recordClique(found, currentClique) ==
    [ cliques  |-> [ i \in (DOMAIN found.cliques) \cup {found.cliqueId} |->
                        IF i = found.cliqueId THEN currentClique ELSE found.cliques[i] ],
      cliqueId |-> found.cliqueId + 1 ]

RECURSIVE findCliques(_, _, _, _, _)
RECURSIVE forEachCandidate(_, _, _, _, _, _, _)

\* findCliques(currentClique, candidates, excluded); `found` is the enclosing
\* function's (cliques, cliqueId), returned as updated by the call
findCliques(adj, currentClique, candidates, excluded, found) ==
    IF branchDone(candidates, excluded)
    THEN IF reportsClique(currentClique)
         THEN recordClique(found, currentClique)
         ELSE found
    ELSE LET pivot == choosePivot(candidates, excluded)
             pivotNeighbors == neighborsOf(adj, pivot)
         IN  forEachCandidate(adj, currentClique, candidates, pivotNeighbors,
                              candidates, excluded, found)

\* Array.from(candidates).forEach(candidate => ...): `todo` is what is left of the
\* array copied before the loop, candidates and excluded are the live sets of this call
forEachCandidate(adj, currentClique, todo, pivotNeighbors, candidates, excluded, found) ==
    IF todo = <<>> THEN found
    ELSE LET candidate == Head(todo) IN
         IF skipsCandidate(pivotNeighbors, candidate)
         THEN forEachCandidate(adj, currentClique, Tail(todo), pivotNeighbors,
                               candidates, excluded, found)
         ELSE LET candidateNeighbors == neighborsOf(adj, candidate)
                  newClique == currentClique \cup {candidate}
                  newCandidates == SelectSeq(candidates, LAMBDA c : c \in candidateNeighbors)
                  newExcluded == SelectSeq(excluded, LAMBDA e : e \in candidateNeighbors)
                  afterBranch == findCliques(adj, newClique, newCandidates, newExcluded, found)
              IN  forEachCandidate(adj, currentClique, Tail(todo), pivotNeighbors,
                                   SetDelete(candidates, candidate),
                                   SetAdd(excluded, candidate), afterBranch)

\* new Set(array): the elements in order of first occurrence
RECURSIVE NewSet(_, _)
NewSet(array, acc) ==
    IF array = <<>> THEN acc ELSE NewSet(Tail(array), SetAdd(acc, Head(array)))

\* const allNodes = new Set(nodes.map(n => n.id))
allNodesOf(nodeList) == NewSet([ i \in 1..Len(nodeList) |-> nodeList[i].id ], <<>>)

\* findAllCliques(nodes, links): Map<number, Set<string>>, a function from the
\* clique ids 0..k-1 (discovery order) to member sets
findAllCliques(nodeList, linkList) ==
    findCliques(adjacencyList(nodeList, linkList), {}, allNodesOf(nodeList), <<>>,
                [cliques |-> <<>>, cliqueId |-> 0]).cliques


-----------------------------------------------------------------------------
(* getNodeCliqueMemberships *)

\* a variant that pushes every clique id without the has() test
nodeCliquesOf_AllCliques(allCliques, id) == SortedSeq(DOMAIN allCliques)

\* allCliques.forEach((cliqueNodes, cliqueId) => { if (cliqueNodes.has(node.id))
\* nodeCliques.push(cliqueId) }): the Map is visited in insertion order, 0..k-1
nodeCliquesOf(allCliques, id) ==
    SelectSeq(SortedSeq(DOMAIN allCliques), LAMBDA cliqueId : id \in allCliques[cliqueId])

\* a variant in which a later clique of equal size replaces the current one
RECURSIVE largestCliqueOf_LastOfTies(_, _, _)
largestCliqueOf_LastOfTies(allCliques, nodeCliques, largestCliqueId) ==
    IF nodeCliques = <<>> THEN largestCliqueId
    ELSE LET cliqueId == Head(nodeCliques) IN
         largestCliqueOf_LastOfTies(allCliques, Tail(nodeCliques),
             IF Cardinality(allCliques[cliqueId]) >= Cardinality(allCliques[largestCliqueId])
             THEN cliqueId ELSE largestCliqueId)

\* the loop over nodeCliques that keeps the first clique of greatest size
RECURSIVE largestCliqueOf(_, _, _)
largestCliqueOf(allCliques, nodeCliques, largestCliqueId) ==
    IF nodeCliques = <<>> THEN largestCliqueId
    ELSE LET cliqueId == Head(nodeCliques) IN
         largestCliqueOf(allCliques, Tail(nodeCliques),
             IF Cardinality(allCliques[cliqueId]) > Cardinality(allCliques[largestCliqueId])
             THEN cliqueId ELSE largestCliqueId)

\* if (nodeCliques.length > 0): only then is the node entered in the two maps
hasMemberships(nodeCliques) == Len(nodeCliques) > 0

\* getNodeCliqueMemberships(nodes, links)
getNodeCliqueMemberships(nodeList, linkList) ==
    LET allCliques == findAllCliques(nodeList, linkList)
        members == { id \in NodeIds(nodeList) : hasMemberships(nodeCliquesOf(allCliques, id)) }
    IN  [ allCliques |-> allCliques,
          nodeToAllCliques |-> [ id \in members |-> nodeCliquesOf(allCliques, id) ],
          nodeToLargestClique |->
              [ id \in members |->
                  LET nodeCliques == nodeCliquesOf(allCliques, id)
                  IN  largestCliqueOf(allCliques, nodeCliques, nodeCliques[1]) ] ]

noCliqueMemberships == [ allCliques |-> <<>>, nodeToAllCliques |-> <<>>,
                         nodeToLargestClique |-> <<>> ]

-----------------------------------------------------------------------------
(* Edge analysis shared by processNetworkData and the render effect *)

\* typeof link.source === 'string' ? link.source : link.source.id
sourceIdOf(link) == link.source

\* typeof link.target === 'string' ? link.target : link.target.id
targetIdOf(link) == link.target

\* `${sourceId}->${targetId}`
edgeKeyOf(sourceId, targetId) == <<sourceId, targetId>>

\* a variant that joins the two ids without sorting them
pairKeyOf_Unsorted(sourceId, targetId) == <<sourceId, targetId>>

\* [sourceId, targetId].sort().join('<->')
pairKeyOf(sourceId, targetId) ==
    IF sourceId <= targetId THEN <<sourceId, targetId>> ELSE <<targetId, sourceId>>

\* the first forEach: edgeMap.set(edgeKey, ...), then if (edgeMap.has(reverseKey))
\* bidirectionalPairs.add(pairKey); edgeMap is modelled by its key set
RECURSIVE markBidirectional(_, _, _)
markBidirectional(linkList, edgeMap, bidirectionalPairs) ==
    IF linkList = <<>> THEN bidirectionalPairs
    ELSE LET sourceId == sourceIdOf(Head(linkList))
             targetId == targetIdOf(Head(linkList))
             edgeMap2 == edgeMap \cup {edgeKeyOf(sourceId, targetId)}
         IN  markBidirectional(Tail(linkList), edgeMap2,
                 IF edgeKeyOf(targetId, sourceId) \in edgeMap2
                 THEN bidirectionalPairs \cup {pairKeyOf(sourceId, targetId)}
                 ELSE bidirectionalPairs)

bidirectionalPairsOf(linkList) == markBidirectional(linkList, {}, {})

\* if (bidirectionalPairs.has(pairKey) && processedPairs.has(pairKey)) return;
skipsLink(bidirectionalPairs, processedPairs, pairKey) ==
    pairKey \in bidirectionalPairs /\ pairKey \in processedPairs

-----------------------------------------------------------------------------
(* processNetworkData *)

\* connectionCounts.get(id)?.add(other)
addConnection(connectionCounts, id, other) ==
    IF id \in DOMAIN connectionCounts
    THEN [connectionCounts EXCEPT ![id] = @ \cup {other}]
    ELSE connectionCounts

\* the second forEach of processNetworkData: the unique connections of every node
RECURSIVE countConnections(_, _, _, _)
countConnections(linkList, bidirectionalPairs, processedPairs, connectionCounts) ==
    IF linkList = <<>> THEN connectionCounts
    ELSE LET sourceId == sourceIdOf(Head(linkList))
             targetId == targetIdOf(Head(linkList))
             pairKey == pairKeyOf(sourceId, targetId)
         IN  IF skipsLink(bidirectionalPairs, processedPairs, pairKey)
             THEN countConnections(Tail(linkList), bidirectionalPairs, processedPairs,
                                   connectionCounts)
             ELSE countConnections(Tail(linkList), bidirectionalPairs,
                      IF pairKey \in bidirectionalPairs
                      THEN processedPairs \cup {pairKey} ELSE processedPairs,
                      addConnection(addConnection(connectionCounts, sourceId, targetId),
                                    targetId, sourceId))

\* connectionCounts.get(node.id)?.size || 0
connectionCountOf(connectionCounts, id) ==
    IF id \in DOMAIN connectionCounts THEN Cardinality(connectionCounts[id]) ELSE 0

\* a variant that takes only nodes without any connection for leaves
isLeafNode_Unconnected(connectionCounts, node) ==
    node.id # COLIN_USER_ID /\ connectionCountOf(connectionCounts, node.id) < 1

\* a variant that also takes nodes with two connections for leaves
isLeafNode_UpToTwo(connectionCounts, node) ==
    node.id # COLIN_USER_ID /\ connectionCountOf(connectionCounts, node.id) <= 2

\* node.id !== COLIN_USER_ID && (connectionCounts.get(node.id)?.size || 0) <= 1
isLeafNode(connectionCounts, node) ==
    node.id # COLIN_USER_ID /\ connectionCountOf(connectionCounts, node.id) <= 1

\* a variant that does not exempt the root
keepsNode_RootNotExempt(connectionCounts, node) ==
    connectionCountOf(connectionCounts, node.id) > 1

\* node.id === COLIN_USER_ID || (connectionCounts.get(node.id)?.size || 0) > 1
keepsNode(connectionCounts, node) ==
    node.id = COLIN_USER_ID \/ connectionCountOf(connectionCounts, node.id) > 1

\* const condensedNode = { id: 'CONDENSED_LEAVES', username: `${n} leaf connections`, ... }
condensedNodeOf(leafCount) ==
    [id |-> CONDENSED_LEAVES, username |-> <<"leaf connections", leafCount>>]

\* { source: COLIN_USER_ID, target: 'CONDENSED_LEAVES', value: 1 }: it has no type
\* (a raw link's optional value is never read and is left out of the records)
condensedLink == [source |-> COLIN_USER_ID, target |-> CONDENSED_LEAVES, type |-> "undefined"]

\* a variant that looks at the source endpoint only
keepsLink_SourceOnly(leafNodes, link) ==
    ~ \E i \in 1..Len(leafNodes) : leafNodes[i].id = sourceIdOf(link)

\* !leafNodes.some(leaf => leaf.id === sourceId || leaf.id === targetId)
keepsLink(leafNodes, link) ==
    ~ \E i \in 1..Len(leafNodes) :
          leafNodes[i].id = sourceIdOf(link) \/ leafNodes[i].id = targetIdOf(link)

\* the unique connections of every node, as the two forEach loops leave them
connectionCountsOf(originalData) ==
    countConnections(originalData.links, bidirectionalPairsOf(originalData.links), {},
                     [ id \in NodeIds(originalData.nodes) |-> {} ])

\* const leafNodes = originalData.nodes.filter(...)
leafNodesOf(originalData) ==
    LET connectionCounts == connectionCountsOf(originalData)
    IN  SelectSeq(originalData.nodes, LAMBDA node : isLeafNode(connectionCounts, node))

\* processNetworkData(originalData, hideLeaves)
processNetworkData(originalData, hideLeaves) ==
    IF ~ hideLeaves THEN originalData
    ELSE LET connectionCounts == connectionCountsOf(originalData)
             leafNodes == leafNodesOf(originalData)
         IN  IF Len(leafNodes) = 0 THEN originalData
             ELSE LET filteredNodes == SelectSeq(originalData.nodes,
                                           LAMBDA node : keepsNode(connectionCounts, node))
                      newNodes == Append(filteredNodes, condensedNodeOf(Len(leafNodes)))
                      filteredLinks == SelectSeq(originalData.links,
                                           LAMBDA link : keepsLink(leafNodes, link))
                  IN  [ nodes |-> newNodes,
                        links |-> IF Len(leafNodes) > 0
                                  THEN Append(filteredLinks, condensedLink)
                                  ELSE filteredLinks ]

-----------------------------------------------------------------------------
(* The edge normalization of the render effect *)

\* the second forEach of the effect: links.push({source, target, bidirectional, value: 1})
\* (value is the constant 1 on every link and is left out of the record)
RECURSIVE pushLinks(_, _, _, _)
pushLinks(linkList, bidirectionalPairs, processedPairs, out) ==
    IF linkList = <<>> THEN out
    ELSE LET sourceId == sourceIdOf(Head(linkList))
             targetId == targetIdOf(Head(linkList))
             pairKey == pairKeyOf(sourceId, targetId)
             isBidirectional == pairKey \in bidirectionalPairs
         IN  IF skipsLink(bidirectionalPairs, processedPairs, pairKey)
             THEN pushLinks(Tail(linkList), bidirectionalPairs, processedPairs, out)
             ELSE pushLinks(Tail(linkList), bidirectionalPairs,
                      IF isBidirectional THEN processedPairs \cup {pairKey}
                                         ELSE processedPairs,
                      Append(out, [source |-> sourceId, target |-> targetId,
                                   bidirectional |-> isBidirectional]))

normalizeLinks(linkList) == pushLinks(linkList, bidirectionalPairsOf(linkList), {}, <<>>)

-----------------------------------------------------------------------------
(* Coordinates *)

(***************************************************************************)
(* The coordinates of the component come out of trigonometry, of           *)
(* Math.random() and of the force engine.  A coordinate pair {x, y} (or    *)
(* {fx, fy}: the program always writes the two together) is modelled by    *)
(* the expression that produced it: its kind, the slot on its circle, the  *)
(* cluster it belongs to and the random draw that went into it.  Two pairs *)
(* are equal when they were produced the same way.                         *)
(***************************************************************************)
Position(kind, slot, slots, cluster, clusters, random) ==
    [kind |-> kind, slot |-> slot, slots |-> slots, cluster |-> cluster,
     clusters |-> clusters, random |-> random]

\* x and y (or fx and fy) are undefined
Unset == Position("unset", 0, 0, 0, 0, 0)

\* { x: width / 2, y: height / 2 }, with centerX = width / 2 and centerY = height / 2
canvasCentre == Position("centre", 0, 0, 0, 0, 0)

\* the outcomes of one Math.random() call: a low and a high draw
RandomDraws == {0, 1}

\* the coordinates the engine computes for an unpinned node in its tick number tick
tickPosition(tick) == Position("tick", tick, 0, 0, 0, 0)

\* the coordinates d3.forceSimulation(nodes) gives to the node of the given index
\* that comes without x and y (its phyllotaxis arrangement)
phyllotaxisPosition(index) == Position("phyllotaxis", index, 0, 0, 0, 0)

\* the pointer coordinates {event.x, event.y} a drag event may carry
PointerPositions == { canvasCentre, Position("pointer", 0, 0, 0, 0, 0) }

\* the index of the node with the given id in a node list
indexOf(nodeList, id) == CHOOSE i \in 1..Len(nodeList) : nodeList[i].id = id

-----------------------------------------------------------------------------
(* calculateOptimalPositions *)

\* scatter mode: angle = (index / nodes.length) * 2 * Math.PI and
\* nodeRadius = radius + (Math.random() - 0.5) * 100
scatterPosition(index, total, random) == Position("scatter", index, total, 0, 0, random)

\* nodes.forEach(node => ...): clusterGroups (clique id -> node ids, in the order
\* the clique ids are first met) and unclusteredNodes
RECURSIVE groupNodes(_, _, _, _)
groupNodes(nodeList, nodeToLargestClique, clusterGroups, unclusteredNodes) ==
    IF nodeList = <<>>
    THEN [clusterGroups |-> clusterGroups, unclusteredNodes |-> unclusteredNodes]
    ELSE LET id == Head(nodeList).id IN
         IF id \in DOMAIN nodeToLargestClique
         THEN LET cliqueId == nodeToLargestClique[id]
                  known == \E c \in 1..Len(clusterGroups) : clusterGroups[c].cliqueId = cliqueId
                  groups == IF known THEN clusterGroups
                            ELSE Append(clusterGroups, [cliqueId |-> cliqueId, nodeIds |-> <<>>])
              IN  groupNodes(Tail(nodeList), nodeToLargestClique,
                      [ c \in 1..Len(groups) |->
                          IF groups[c].cliqueId = cliqueId
                          THEN [groups[c] EXCEPT !.nodeIds = Append(@, id)]
                          ELSE groups[c] ],
                      unclusteredNodes)
         ELSE groupNodes(Tail(nodeList), nodeToLargestClique, clusterGroups,
                         Append(unclusteredNodes, id))

\* the position of a member of a cluster: the cluster centre for a cluster of one
\* node, else a slot on the circle around it, moved by jitter = (Math.random() - 0.5) * 20
clusterPosition(nodeIndex, clusterSize, clusterIndex, clusterCount, random) ==
    IF clusterSize = 1
    THEN Position("clusterCentre", 0, 1, clusterIndex, clusterCount, 0)
    ELSE Position("cluster", nodeIndex, clusterSize, clusterIndex, clusterCount, random)

\* the position of an unclustered node: a slot on the outer ring, moved by
\* jitter = (Math.random() - 0.5) * 50
outerPosition(index, total, random) == Position("outer", index, total, 0, 0, random)

\* the radius of the circle a planned position is put on before its random offset,
\* in hundredths of Math.min(width, height): radius = min * 0.3 in scatter mode,
\* clusterRadius = min * 0.25 for the cluster centres and
\* outerRadius = clusterRadius * 1.8 for the unclustered nodes
ringRadiusOf(position) ==
    IF position.kind = "scatter" THEN 30
    ELSE IF position.kind \in {"cluster", "clusterCentre"} THEN 25
    ELSE IF position.kind = "outer" THEN 45
    ELSE 0

\* a variant that sets the position of the root id in scatter mode too, whether
\* or not a node has that id
calculateOptimalPositions_RootAlways(nodeList, linkList, show, random) ==
    [ id \in NodeIds(nodeList) \cup {COLIN_USER_ID} |->
        IF id = COLIN_USER_ID THEN canvasCentre
        ELSE LET i == indexOf(nodeList, id)
             IN  scatterPosition(i - 1, Len(nodeList), random[i]) ]

\* calculateOptimalPositions(nodes, links, width, height, showComponents); random[i]
\* is the Math.random() draw made for the node of index i
calculateOptimalPositions(nodeList, linkList, show, random) ==
    IF ~ show
    THEN [ id \in NodeIds(nodeList) |->
             IF id = COLIN_USER_ID THEN canvasCentre
             ELSE LET i == indexOf(nodeList, id)
                  IN  scatterPosition(i - 1, Len(nodeList), random[i]) ]
    ELSE LET nodeToLargestClique ==
                 getNodeCliqueMemberships(nodeList, linkList).nodeToLargestClique
             grouped == groupNodes(nodeList, nodeToLargestClique, <<>>, <<>>)
             clusters == grouped.clusterGroups
             unclusteredNodes == grouped.unclusteredNodes
         IN  [ id \in NodeIds(nodeList) \cup {COLIN_USER_ID} |->
                 IF id = COLIN_USER_ID THEN canvasCentre
                 ELSE IF id \in DOMAIN nodeToLargestClique
                 THEN LET c == CHOOSE k \in 1..Len(clusters) :
                                   clusters[k].cliqueId = nodeToLargestClique[id]
                          nodeIds == clusters[c].nodeIds
                          k == CHOOSE j \in 1..Len(nodeIds) : nodeIds[j] = id
                      IN  clusterPosition(k - 1, Len(nodeIds), c - 1, Len(clusters),
                                          random[indexOf(nodeList, id)])
                 ELSE LET k == CHOOSE j \in 1..Len(unclusteredNodes) :
                                   unclusteredNodes[j] = id
                      IN  outerPosition(k - 1, Len(unclusteredNodes),
                                        random[indexOf(nodeList, id)]) ]

-----------------------------------------------------------------------------
(* The hints the render effect gives to d3.forceLink *)

\* a variant in which two endpoints without dominant clique count as of one clique
sameDominantClique_UndefinedEqual(nodeToLargestClique, link) ==
    LET sourceComponent == IF link.source \in DOMAIN nodeToLargestClique
                           THEN nodeToLargestClique[link.source] ELSE -1
        targetComponent == IF link.target \in DOMAIN nodeToLargestClique
                           THEN nodeToLargestClique[link.target] ELSE -1
    IN  sourceComponent = targetComponent

\* sourceComponent !== undefined && sourceComponent === targetComponent
sameDominantClique(nodeToLargestClique, link) ==
    /\ link.source \in DOMAIN nodeToLargestClique
    /\ link.target \in DOMAIN nodeToLargestClique
    /\ nodeToLargestClique[link.source] = nodeToLargestClique[link.target]

\* .distance(d => ...)
linkDistance(show, nodeToLargestClique, link) ==
    IF ~ show THEN 120
    ELSE IF sameDominantClique(nodeToLargestClique, link) THEN 80
    ELSE 180

\* .strength(d => ...), in tenths: 0.3, 0.8 and 0.1
linkStrength(show, nodeToLargestClique, link) ==
    IF ~ show THEN 3
    ELSE IF sameDominantClique(nodeToLargestClique, link) THEN 8
    ELSE 1

-----------------------------------------------------------------------------
(* Double-precision numbers *)

(***************************************************************************)
(* A hue is a JavaScript number, an IEEE 754 double.  A natural number of  *)
(* any size is modelled by the sequence of its digits to the base 2^16,    *)
(* the least significant first and the last one not 0 (zero is the empty   *)
(* sequence), and a non-negative double by [sig, exp], the value           *)
(* sig * 2^exp, where sig has exactly SignificandBits binary digits (zero: *)
(* sig = <<>>, exp = 0).  The small factors and divisors are below 2^15.   *)
(***************************************************************************)

\* the binary digits a double keeps
SignificandBits == 53

RECURSIVE natOf(_)
natOf(n) == IF n = 0 THEN <<>> ELSE <<n % 2^16>> \o natOf(n \div 2^16)

\* a digit sequence without its leading zeros
trimNat(a) ==
    IF \A i \in 1..Len(a) : a[i] = 0 THEN <<>>
    ELSE SubSeq(a, 1, CHOOSE top \in 1..Len(a) :
                          a[top] # 0 /\ \A i \in (top + 1)..Len(a) : a[i] = 0)

RECURSIVE addWithCarry(_, _, _)
addWithCarry(a, b, carry) ==
    IF a = <<>> /\ b = <<>> THEN natOf(carry)
    ELSE LET x == IF a = <<>> THEN 0 ELSE Head(a)
             y == IF b = <<>> THEN 0 ELSE Head(b)
             sum == x + y + carry
         IN  <<sum % 2^16>> \o addWithCarry(IF a = <<>> THEN <<>> ELSE Tail(a),
                                            IF b = <<>> THEN <<>> ELSE Tail(b),
                                            sum \div 2^16)

addNat(a, b) == addWithCarry(a, b, 0)

\* a - b for a >= b
RECURSIVE subWithBorrow(_, _, _)
subWithBorrow(a, b, borrow) ==
    IF a = <<>> THEN <<>>
    ELSE LET y == IF b = <<>> THEN 0 ELSE Head(b)
             diff == Head(a) - y - borrow
         IN  <<diff % 2^16>> \o subWithBorrow(Tail(a), IF b = <<>> THEN <<>> ELSE Tail(b),
                                              IF diff < 0 THEN 1 ELSE 0)

subNat(a, b) == trimNat(subWithBorrow(a, b, 0))

lessNat(a, b) ==
    \/ Len(a) < Len(b)
    \/ /\ Len(a) = Len(b)
       /\ \E i \in 1..Len(a) :
             a[i] < b[i] /\ \A j \in (i + 1)..Len(a) : a[j] = b[j]

leqNat(a, b) == ~ lessNat(b, a)

\* a * m for a small factor m
RECURSIVE timesWithCarry(_, _, _)
timesWithCarry(a, m, carry) ==
    IF a = <<>> THEN natOf(carry)
    ELSE LET product == Head(a) * m + carry
         IN  <<product % 2^16>> \o timesWithCarry(Tail(a), m, product \div 2^16)

timesNat(a, m) == IF m = 0 THEN <<>> ELSE timesWithCarry(a, m, 0)

\* a * 2^bits
shiftNat(a, bits) ==
    IF a = <<>> THEN <<>>
    ELSE [i \in 1..(bits \div 16) |-> 0] \o timesNat(a, 2^(bits % 16))

\* the long division of a by a small divisor n, from the leading digit down, with
\* the remainder of the digits above carried in
RECURSIVE divideWithRemainder(_, _, _)
divideWithRemainder(a, n, remainder) ==
    IF a = <<>> THEN [quotient |-> <<>>, remainder |-> remainder]
    ELSE LET top == Len(a)
             r == remainder * 2^16 + a[top]
             rest == divideWithRemainder(SubSeq(a, 1, top - 1), n, r % n)
         IN  [quotient |-> Append(rest.quotient, r \div n), remainder |-> rest.remainder]

\* the number of binary digits of a small number and of a digit sequence
RECURSIVE bitsOf(_)
bitsOf(n) == IF n = 0 THEN 0 ELSE 1 + bitsOf(n \div 2)

bitLength(a) == IF a = <<>> THEN 0 ELSE 16 * (Len(a) - 1) + bitsOf(a[Len(a)])

\* the binary digit of weight 2^i
bitAt(a, i) == (a[(i \div 16) + 1] \div 2^(i % 16)) % 2

\* floor(a / 2^bits)
shiftRight(a, bits) ==
    LET skipped == bits \div 16
        r == bits % 16
        digit(i) == IF i <= Len(a) THEN a[i] ELSE 0
    IN  trimNat([i \in 1..(Len(a) - skipped) |->
                    (digit(i + skipped) \div 2^r)
                    + (digit(i + skipped + 1) % 2^r) * 2^(16 - r)])

zeroDouble == [sig |-> <<>>, exp |-> 0]

\* the double nearest to (a + f) * 2^exp, ties to the even significand, where f is
\* a fraction in (0, 1) when inexact holds and 0 otherwise
roundToDouble(a, exp, inexact) ==
    IF a = <<>> THEN zeroDouble
    ELSE IF bitLength(a) <= SignificandBits
    THEN [sig |-> shiftNat(a, SignificandBits - bitLength(a)),
          exp |-> exp - (SignificandBits - bitLength(a))]
    ELSE LET dropped == bitLength(a) - SignificandBits
             kept == shiftRight(a, dropped)
             half == bitAt(a, dropped - 1) = 1
             below == inexact \/ \E i \in 0..(dropped - 2) : bitAt(a, i) = 1
             up == half /\ (below \/ kept[1] % 2 = 1)
             rounded == IF up THEN addNat(kept, <<1>>) ELSE kept
         IN  IF bitLength(rounded) > SignificandBits
             THEN [sig |-> shiftRight(rounded, 1), exp |-> exp + dropped + 1]
             ELSE [sig |-> rounded, exp |-> exp + dropped]

\* the double k / n of two small non-negative integers, n > 0
doubleQuotient(k, n) ==
    LET division == divideWithRemainder(shiftNat(natOf(k), 64), n, 0)
    IN  roundToDouble(trimNat(division.quotient), -64, division.remainder # 0)

\* the double a * m for a double a and a small non-negative integer m
doubleTimes(a, m) == roundToDouble(timesNat(a.sig, m), a.exp, FALSE)

\* a double that is a multiple of 2^-64, exactly, in units of 2^-64
inUnits(a) == shiftNat(a.sig, a.exp + 64)

-----------------------------------------------------------------------------
(* generateProximityColors *)

\* const width = window.innerWidth * 0.95, const height = window.innerHeight * 0.8:
\* a canvas of 8 by 6 units
width == 8

height == 6

\* const centerX = window.innerWidth * 0.95 / 2
centerX == width \div 2

\* const centerY = window.innerHeight * 0.8 / 2
centerY == height \div 2

\* the sum of one coordinate over the ids of a set
RECURSIVE totalOf(_, _, _)
totalOf(ids, positions, axis) ==
    IF ids = {} THEN 0
    ELSE LET id == CHOOSE x \in ids : TRUE
         IN  positions[id][axis] + totalOf(ids \ {id}, positions, axis)

\* cliqueCenters: for every clique with a positioned member, the sums of the
\* coordinates of its positioned members and their number (the centre is
\* {x: totalX / count, y: totalY / count})
cliqueCentersOf(cliques, positions) ==
    [ cliqueId \in { c \in DOMAIN cliques : cliques[c] \cap DOMAIN positions # {} } |->
        LET placed == cliques[cliqueId] \cap DOMAIN positions
        IN  [totalX |-> totalOf(placed, positions, "x"),
             totalY |-> totalOf(placed, positions, "y"),
             count |-> Cardinality(placed)] ]

\* where Math.atan2(dy, dx) lies: 1 for an angle below 0, 2 for 0, 3 for an angle
\* between 0 and pi, 4 for pi
angleRange(dx, dy) ==
    IF dy < 0 THEN 1 ELSE IF dy > 0 THEN 3 ELSE IF dx >= 0 THEN 2 ELSE 4

\* the sign of Math.atan2(ay, ax) - Math.atan2(by, bx): within a half-plane the
\* angle grows counter-clockwise
compareAngles(ax, ay, bx, by) ==
    IF angleRange(ax, ay) # angleRange(bx, by)
    THEN (IF angleRange(ax, ay) < angleRange(bx, by) THEN -1 ELSE 1)
    ELSE IF angleRange(ax, ay) \in {2, 4} THEN 0
    ELSE IF ax * by - ay * bx > 0 THEN -1
    ELSE IF ax * by - ay * bx < 0 THEN 1
    ELSE 0

\* the comparator of cliqueIds.sort: 0 when a centre is missing, else the sign of
\* angleA - angleB; posA.x - centerX is (totalX - count * centerX) / count, and
\* the positive divisor does not change the angle
compareCliques(cliqueCenters, a, b) ==
    IF a \notin DOMAIN cliqueCenters \/ b \notin DOMAIN cliqueCenters THEN 0
    ELSE LET posA == cliqueCenters[a]
             posB == cliqueCenters[b]
         IN  compareAngles(posA.totalX - posA.count * centerX,
                           posA.totalY - posA.count * centerY,
                           posB.totalX - posB.count * centerX,
                           posB.totalY - posB.count * centerY)

\* Array.prototype.sort is stable: an element goes behind the sorted elements that
\* do not compare greater than it (the comparator orders the ids when every centre
\* is defined and when none is)
RECURSIVE insertClique(_, _, _)
insertClique(sorted, cliqueId, cliqueCenters) ==
    IF sorted = <<>> THEN <<cliqueId>>
    ELSE IF compareCliques(cliqueCenters, Head(sorted), cliqueId) > 0
    THEN <<cliqueId>> \o sorted
    ELSE <<Head(sorted)>> \o insertClique(Tail(sorted), cliqueId, cliqueCenters)

RECURSIVE sortInto(_, _, _)
sortInto(sorted, cliqueIds, cliqueCenters) ==
    IF cliqueIds = <<>> THEN sorted
    ELSE sortInto(insertClique(sorted, Head(cliqueIds), cliqueCenters), Tail(cliqueIds),
                  cliqueCenters)

\* const sortedCliques = cliqueIds.sort((a, b) => ...)
sortedCliquesOf(cliqueIds, cliqueCenters) == sortInto(<<>>, cliqueIds, cliqueCenters)

\* a variant that gives every rank the hue step of a wheel of 12 colours
colorOf_TwelfthSteps(index, total) ==
    [hue |-> doubleTimes(doubleQuotient(index, 12), 360),
     saturation |-> 65 + (index % 3) * 10,
     lightness |-> 50 + (index % 2) * 10]

\* `hsl(${hue}, ${saturation}%, ${lightness}%)` with hue = (index / length) * 360
colorOf(index, total) ==
    [hue |-> doubleTimes(doubleQuotient(index, total), 360),
     saturation |-> 65 + (index % 3) * 10,
     lightness |-> 50 + (index % 2) * 10]

\* sortedCliques.forEach((cliqueId, index) => colors[cliqueId] = ...)
colorsOf(sortedCliques) ==
    [ cliqueId \in Range(sortedCliques) |->
        colorOf((CHOOSE i \in 1..Len(sortedCliques) : sortedCliques[i] = cliqueId) - 1,
                Len(sortedCliques)) ]

\* generateProximityColors(cliques, optimalPositions), for positions with numeric
\* x and y; Array.from(cliques.keys()) lists the clique ids in increasing order
generateProximityColors(cliques, positions) ==
    LET cliqueIds == SortedSeq(DOMAIN cliques)
    IN  IF Len(cliqueIds) = 0 THEN <<>>
        ELSE colorsOf(sortedCliquesOf(cliqueIds, cliqueCentersOf(cliques, positions)))

\* the colours used when cliques are not shown or none exists
defaultPalette ==
    << "#FF6B35", "#4ECDC4", "#45B7D1", "#F9CA24", "#F0932B", "#EB4D4B",
       "#6C5CE7", "#00B894", "#FDCB6E", "#E17055", "#81ECEC", "#A29BFE" >>

-----------------------------------------------------------------------------
(* The component state where a pipeline step is run on its own *)

\* no findAllCliques call is run step by step
NotSearching ==
    /\ callStack = <<>>
    /\ heap = <<>>
    /\ foundCliques = [cliques |-> <<>>, cliqueId |-> 0]

\* no component is mounted: its options, refs and render results have the values
\* of NetworkGraph's construction and stay there
NotMounted ==
    /\ showComponents = FALSE
    /\ isInitialRender = TRUE
    /\ currentNodePositions = <<>>
    /\ optimalPositions = <<>>
    /\ plannerCalled = FALSE
    /\ handedNodes = <<>>
    /\ componentColors = <<>>
    /\ linkHints = <<>>
    /\ dragSubject = 0
    /\ ticks = 0
    /\ drags = 0

-----------------------------------------------------------------------------
(* The clique finder and the membership resolver on every small graph *)

\* the unordered pairs of distinct ids of a node list
PairsOver(n) == { p \in (1..n) \X (1..n) : p[1] < p[2] }

\* a set of pairs as a list of normalized links, in a fixed order
RECURSIVE LinkListOf(_)
LinkListOf(pairs) ==
    IF pairs = {} THEN <<>>
    ELSE LET p == CHOOSE q \in pairs : \A r \in pairs :
                       q[1] < r[1] \/ (q[1] = r[1] /\ q[2] <= r[2])
         IN  <<[source |-> p[1], target |-> p[2], bidirectional |-> FALSE]>>
             \o LinkListOf(pairs \ {p})

\* the node list of the ids first..n in increasing order; with first = 2 the
\* root is not in the list and a link that touches it has an unknown endpoint
NodeListOf(first, n) == [ i \in 1..(IF n >= first THEN n - first + 1 ELSE 0) |->
                            GraphNode(first + i - 1) ]

emptyData == [nodes |-> <<>>, links |-> <<>>]

InitCliques ==
    /\ pc = "init"
    /\ \E n \in 0..MaxCliqueNodes, first \in {1, 2} :
         /\ nodes = NodeListOf(first, n)
         /\ \E pairs \in SUBSET PairsOver(n) : links = LinkListOf(pairs)
    /\ cliqueMemberships = noCliqueMemberships
    /\ data = emptyData /\ processedData = emptyData /\ reprocessedData = emptyData
    /\ hideLeafNodes = FALSE
    /\ NotMounted
    /\ originalLinks = <<>>
    /\ NotSearching

GetNodeCliqueMemberships ==
    /\ pc = "init"
    /\ pc' = "memberships"
    /\ cliqueMemberships' = getNodeCliqueMemberships(nodes, links)
    /\ UNCHANGED <<data, hideLeafNodes, processedData, reprocessedData, nodes,
                   originalLinks, links>>
    /\ UNCHANGED renderVars
    /\ UNCHANGED searchVars

NextCliques == GetNodeCliqueMemberships

SpecCliques == InitCliques /\ [][NextCliques]_vars

-----------------------------------------------------------------------------
(* The edge normalization on every short raw edge list *)

\* the longest raw edge list handed to the normalization
MaxRawLinks == 3

RawIds == {1, 2, 3}

\* type: 'follower' | 'following' | 'mutual'
LinkTypes == {"follower", "following", "mutual"}

RawLinks == [source : RawIds, target : RawIds, type : LinkTypes]

RawLinkLists == UNION { [1..k -> RawLinks] : k \in 0..MaxRawLinks }

InitNormalize ==
    /\ pc = "init"
    /\ originalLinks \in RawLinkLists
    /\ links = <<>>
    /\ nodes = <<>>
    /\ cliqueMemberships = noCliqueMemberships
    /\ data = emptyData /\ processedData = emptyData /\ reprocessedData = emptyData
    /\ hideLeafNodes = FALSE
    /\ NotMounted
    /\ NotSearching

NormalizeEdges ==
    /\ pc = "init"
    /\ pc' = "normalized"
    /\ links' = normalizeLinks(originalLinks)
    /\ UNCHANGED <<data, hideLeafNodes, processedData, reprocessedData, nodes,
                   originalLinks, cliqueMemberships>>
    /\ UNCHANGED renderVars
    /\ UNCHANGED searchVars

NextNormalize == NormalizeEdges

SpecNormalize == InitNormalize /\ [][NextNormalize]_vars

-----------------------------------------------------------------------------
(* The leaf condenser on every small snapshot *)

\* the largest id of a snapshot handed to the leaf condenser
MaxSnapshotNodes == 4

\* how a pair of ids is linked in a raw snapshot
PairLinkings == {"none", "oneway", "both"}

\* the raw links of one pair: a single link runs from the smaller id to the larger
\* when the ids sum to an even number and from the larger to the smaller otherwise
RawLinksOfPair(p, linking) ==
    LET forward  == [source |-> p[1], target |-> p[2], type |-> "following"]
        backward == [source |-> p[2], target |-> p[1], type |-> "follower"]
    IN  CASE linking = "none"   -> <<>>
          [] linking = "oneway" -> IF (p[1] + p[2]) % 2 = 0 THEN <<forward>> ELSE <<backward>>
          [] linking = "both"   -> <<[forward EXCEPT !.type = "mutual"],
                                     [backward EXCEPT !.type = "mutual"]>>

RECURSIVE RawLinkListOf(_, _)
RawLinkListOf(pairs, linkingOf) ==
    IF pairs = {} THEN <<>>
    ELSE LET p == CHOOSE q \in pairs : \A r \in pairs :
                       q[1] < r[1] \/ (q[1] = r[1] /\ q[2] <= r[2])
         IN  RawLinksOfPair(p, linkingOf[p]) \o RawLinkListOf(pairs \ {p}, linkingOf)

InitCondense ==
    /\ pc = "init"
    /\ \E n \in 0..MaxSnapshotNodes, first \in {1, 2} :
         \E linkingOf \in [PairsOver(n) -> PairLinkings] :
             data = [ nodes |-> NodeListOf(first, n),
                      links |-> RawLinkListOf(PairsOver(n), linkingOf) ]
    /\ hideLeafNodes = FALSE
    /\ NotMounted
    /\ processedData = emptyData /\ reprocessedData = emptyData
    /\ nodes = <<>> /\ originalLinks = <<>> /\ links = <<>>
    /\ cliqueMemberships = noCliqueMemberships
    /\ NotSearching

\* let processedData = processNetworkData(data, hideLeafNodes)
ProcessNetworkData ==
    /\ pc = "init"
    /\ pc' = "processed"
    /\ \E hideLeaves \in BOOLEAN :
         /\ hideLeafNodes' = hideLeaves
         /\ processedData' = processNetworkData(data, hideLeaves)
    /\ UNCHANGED <<data, reprocessedData, nodes, originalLinks, links, cliqueMemberships>>
    /\ UNCHANGED renderVars
    /\ UNCHANGED searchVars

\* the condenser applied to its own output
Recondense ==
    /\ pc = "processed"
    /\ hideLeafNodes
    /\ pc' = "reprocessed"
    /\ reprocessedData' = processNetworkData(processedData, TRUE)
    /\ UNCHANGED <<data, hideLeafNodes, processedData, nodes, originalLinks, links,
                   cliqueMemberships>>
    /\ UNCHANGED renderVars
    /\ UNCHANGED searchVars

NextCondense == ProcessNetworkData \/ Recondense

SpecCondense == InitCondense /\ [][NextCondense]_vars

-----------------------------------------------------------------------------
(* The colorizer on every small family of positioned cliques *)

\* the most cliques handed to generateProximityColors
MaxColorCliques == 12

\* the cliques 0..n-1, the clique c with three members of its own
ColorCliquesOf(n) == [ c \in 0..(n - 1) |-> {3 * c + 1, 3 * c + 2, 3 * c + 3} ]

\* the position maps: no node has a position, or the members of the first cliques
\* are at the place of positive angle and those of the other cliques at the place
\* of negative angle, which the sort puts first
ColorPositionsOf(n) ==
    {<<>>} \cup
    { [ id \in 1..(3 * n) |->
          IF (id - 1) \div 3 < above
          THEN [x |-> centerX + 1, y |-> centerY + 1]
          ELSE [x |-> centerX + 1, y |-> centerY - 1] ] :
      above \in 0..n }

InitColors ==
    /\ pc = "init"
    /\ \E n \in 1..MaxColorCliques :
         /\ cliqueMemberships = [noCliqueMemberships EXCEPT !.allCliques = ColorCliquesOf(n)]
         /\ optimalPositions \in ColorPositionsOf(n)
    /\ showComponents = TRUE
    /\ componentColors = <<>>
    /\ data = emptyData /\ processedData = emptyData /\ reprocessedData = emptyData
    /\ nodes = <<>> /\ originalLinks = <<>> /\ links = <<>>
    /\ hideLeafNodes = FALSE
    /\ isInitialRender = TRUE
    /\ currentNodePositions = <<>>
    /\ plannerCalled = FALSE
    /\ handedNodes = <<>>
    /\ linkHints = <<>>
    /\ dragSubject = 0 /\ ticks = 0 /\ drags = 0
    /\ NotSearching

\* componentColors = generateProximityColors(allCliques, optimalPositions)
GenerateProximityColors ==
    /\ pc = "init"
    /\ pc' = "colored"
    /\ componentColors' = generateProximityColors(cliqueMemberships.allCliques,
                                                  optimalPositions)
    /\ UNCHANGED <<data, hideLeafNodes, processedData, reprocessedData, nodes,
                   originalLinks, links, cliqueMemberships, showComponents,
                   isInitialRender, currentNodePositions, optimalPositions,
                   plannerCalled, handedNodes, linkHints, dragSubject, ticks, drags>>
    /\ UNCHANGED searchVars

NextColors == GenerateProximityColors

SpecColors == InitColors /\ [][NextColors]_vars

-----------------------------------------------------------------------------
(* findAllCliques step by step, with its Set objects *)
(*                                                                         *)
(* The sets candidates and excluded of a findCliques call are objects that *)
(* the call mutates after each recursive call.  heap holds every such Set  *)
(* by reference (its index), and a frame of callStack holds the references *)
(* the activation was called with, so that two activations that share a    *)
(* Set object are told from two that hold equal sets.                      *)

\* the largest node list handed to the step-by-step clique finder
MaxSearchNodes == 3

\* the deepest nesting of findCliques the model follows; a call whose
\* candidates are n nodes nests at most n + 1 activations in the program
MaxSearchDepth == MaxSearchNodes + 2

\* the pairs a link of the input may join: two distinct ids, or an id and itself
SearchPairsOver(n) == { p \in (1..n) \X (1..n) : p[1] <= p[2] }

\* new Set(...): a new object on the heap, with its reference
newSetOf(objects, elements) ==
    [ref |-> Len(objects) + 1, heap |-> Append(objects, elements)]

\* a variant that passes a copy of candidates without the has() filter
newCandidatesOf_Unfiltered(objects, candidatesRef, candidateNeighbors) ==
    newSetOf(objects, objects[candidatesRef])

\* const newCandidates = new Set(); candidates.forEach(c => { if
\* (candidateNeighbors.has(c)) newCandidates.add(c) })
newCandidatesOf(objects, candidatesRef, candidateNeighbors) ==
    newSetOf(objects, SelectSeq(objects[candidatesRef],
                                LAMBDA c : c \in candidateNeighbors))

\* a variant that passes the caller's excluded set itself
newExcludedOf_SameSet(objects, excludedRef, candidateNeighbors) ==
    [ref |-> excludedRef, heap |-> objects]

\* const newExcluded = new Set(); excluded.forEach(e => { if
\* (candidateNeighbors.has(e)) newExcluded.add(e) })
newExcludedOf(objects, excludedRef, candidateNeighbors) ==
    newSetOf(objects, SelectSeq(objects[excludedRef],
                                LAMBDA e : e \in candidateNeighbors))

\* an activation of findCliques(currentClique, candidates, excluded) at its
\* first statement; todo and pivotNeighbors are set when the loop starts
calledFrame(currentClique, candidatesRef, excludedRef) ==
    [ currentClique  |-> currentClique,
      candidates     |-> candidatesRef,
      excluded       |-> excludedRef,
      todo           |-> <<>>,
      pivotNeighbors |-> {},
      at             |-> "entry" ]

\* the running activation
topFrame == callStack[Len(callStack)]

\* the call stack with the running activation replaced
withTopFrame(frame) == [callStack EXCEPT ![Len(callStack)] = frame]

\* the running activation returns; the search is over when it was the first
returnFromCall ==
    /\ callStack' = SubSeq(callStack, 1, Len(callStack) - 1)
    /\ pc' = IF Len(callStack) = 1 THEN "searched" ELSE pc

InitSearch ==
    /\ pc = "init"
    /\ \E n \in 0..MaxSearchNodes, first \in {1, 2} :
         /\ nodes = NodeListOf(first, n)
         /\ \E pairs \in SUBSET SearchPairsOver(n) : links = LinkListOf(pairs)
    /\ cliqueMemberships = noCliqueMemberships
    /\ data = emptyData /\ processedData = emptyData /\ reprocessedData = emptyData
    /\ hideLeafNodes = FALSE
    /\ originalLinks = <<>>
    /\ NotMounted
    /\ NotSearching

\* const allNodes = new Set(nodes.map(n => n.id));
\* findCliques(new Set(), allNodes, new Set())
StartSearch ==
    /\ pc = "init"
    /\ pc' = "searching"
    /\ LET allNodes == newSetOf(heap, allNodesOf(nodes))
           excluded == newSetOf(allNodes.heap, <<>>)
       IN  /\ heap' = excluded.heap
           /\ callStack' = <<calledFrame({}, allNodes.ref, excluded.ref)>>
    /\ UNCHANGED <<foundCliques, data, hideLeafNodes, processedData, reprocessedData,
                   nodes, originalLinks, links, cliqueMemberships>>
    /\ UNCHANGED renderVars

\* if (candidates.size === 0 && excluded.size === 0) { if (currentClique.size >= 3)
\* cliques.set(cliqueId++, new Set(currentClique)); return; }
ReportAndReturn ==
    /\ pc = "searching"
    /\ topFrame.at = "entry"
    /\ branchDone(heap[topFrame.candidates], heap[topFrame.excluded])
    /\ foundCliques' = IF reportsClique(topFrame.currentClique)
                       THEN recordClique(foundCliques, topFrame.currentClique)
                       ELSE foundCliques
    /\ returnFromCall
    /\ UNCHANGED <<heap, data, hideLeafNodes, processedData, reprocessedData,
                   nodes, originalLinks, links, cliqueMemberships>>
    /\ UNCHANGED renderVars

\* const pivot = ...; const pivotNeighbors = adjacencyList.get(pivot) || new Set();
\* Array.from(candidates): the array the loop runs over
ChoosePivot ==
    /\ pc = "searching"
    /\ topFrame.at = "entry"
    /\ ~ branchDone(heap[topFrame.candidates], heap[topFrame.excluded])
    /\ LET pivot == choosePivot(heap[topFrame.candidates], heap[topFrame.excluded])
       IN  callStack' = withTopFrame(
               [topFrame EXCEPT !.todo = heap[topFrame.candidates],
                                !.pivotNeighbors =
                                    neighborsOf(adjacencyList(nodes, links), pivot),
                                !.at = "loop"])
    /\ UNCHANGED <<pc, heap, foundCliques, data, hideLeafNodes, processedData,
                   reprocessedData, nodes, originalLinks, links, cliqueMemberships>>
    /\ UNCHANGED renderVars

\* if (pivotNeighbors.has(candidate)) return;
SkipCandidate ==
    /\ pc = "searching"
    /\ topFrame.at = "loop"
    /\ topFrame.todo # <<>>
    /\ skipsCandidate(topFrame.pivotNeighbors, Head(topFrame.todo))
    /\ callStack' = withTopFrame([topFrame EXCEPT !.todo = Tail(topFrame.todo)])
    /\ UNCHANGED <<pc, heap, foundCliques, data, hideLeafNodes, processedData,
                   reprocessedData, nodes, originalLinks, links, cliqueMemberships>>
    /\ UNCHANGED renderVars

\* const newClique = new Set(currentClique); newClique.add(candidate); ...
\* findCliques(newClique, newCandidates, newExcluded)
Recurse ==
    /\ pc = "searching"
    /\ topFrame.at = "loop"
    /\ topFrame.todo # <<>>
    /\ ~ skipsCandidate(topFrame.pivotNeighbors, Head(topFrame.todo))
    /\ Len(callStack) < MaxSearchDepth
    /\ LET candidate == Head(topFrame.todo)
           candidateNeighbors == neighborsOf(adjacencyList(nodes, links), candidate)
           newClique == topFrame.currentClique \cup {candidate}
           newCandidates == newCandidatesOf(heap, topFrame.candidates,
                                            candidateNeighbors)
           newExcluded == newExcludedOf(newCandidates.heap, topFrame.excluded,
                                        candidateNeighbors)
       IN  /\ heap' = newExcluded.heap
           /\ callStack' = Append(withTopFrame([topFrame EXCEPT !.at = "called"]),
                                  calledFrame(newClique, newCandidates.ref,
                                              newExcluded.ref))
    /\ UNCHANGED <<pc, foundCliques, data, hideLeafNodes, processedData,
                   reprocessedData, nodes, originalLinks, links, cliqueMemberships>>
    /\ UNCHANGED renderVars

\* candidates.delete(candidate); excluded.add(candidate), after the call returned
MoveCandidate ==
    /\ pc = "searching"
    /\ topFrame.at = "called"
    /\ LET candidate == Head(topFrame.todo)
           afterDelete == [heap EXCEPT ![topFrame.candidates] =
                                           SetDelete(@, candidate)]
       IN  heap' = [afterDelete EXCEPT ![topFrame.excluded] = SetAdd(@, candidate)]
    /\ callStack' = withTopFrame([topFrame EXCEPT !.todo = Tail(topFrame.todo),
                                                  !.at = "loop"])
    /\ UNCHANGED <<pc, foundCliques, data, hideLeafNodes, processedData,
                   reprocessedData, nodes, originalLinks, links, cliqueMemberships>>
    /\ UNCHANGED renderVars

\* the forEach has visited the whole array: findCliques returns
ForEachDone ==
    /\ pc = "searching"
    /\ topFrame.at = "loop"
    /\ topFrame.todo = <<>>
    /\ returnFromCall
    /\ UNCHANGED <<heap, foundCliques, data, hideLeafNodes, processedData,
                   reprocessedData, nodes, originalLinks, links, cliqueMemberships>>
    /\ UNCHANGED renderVars

NextSearch ==
    \/ StartSearch
    \/ ReportAndReturn
    \/ ChoosePivot
    \/ SkipCandidate
    \/ Recurse
    \/ MoveCandidate
    \/ ForEachDone

SpecSearch == InitSearch /\ [][NextSearch]_vars

\* JavaScript runs a call to its end: a step that can be taken is taken
SpecSearchFair == SpecSearch /\ WF_vars(NextSearch)

-----------------------------------------------------------------------------
(* The mounted NetworkGraph component *)

\* the most nodes of a snapshot handed to the component
MaxGraphNodes == 4

\* the most simulation ticks of a behaviour
MaxTicks == 2

\* the most drag gestures of a behaviour
MaxDrags == 1

\* a variant that hands the node object of the snapshot itself to the engine
renderedNode_SnapshotObject(node, position, fixed) ==
    [id |-> node.id, username |-> node.username, position |-> position, fixed |-> fixed,
     copied |-> FALSE]

\* a node object of the effect: the copy {...d} of a node of processedData (copied:
\* it is a new object, not the one of the snapshot), with its x and y (position)
\* and its fx and fy (fixed)
renderedNode(node, position, fixed) ==
    [id |-> node.id, username |-> node.username, position |-> position, fixed |-> fixed,
     copied |-> TRUE]

\* the snapshot after the effect, the engine or a drag handler has written x, y, fx
\* and fy into the node objects of nodeList: a write reaches the snapshot only
\* through a node object that is the snapshot's own
snapshotAfterWrites(snapshot, nodeList) ==
    [snapshot EXCEPT !.nodes =
        [ i \in 1..Len(snapshot.nodes) |->
            IF \E j \in 1..Len(nodeList) :
                   nodeList[j].id = snapshot.nodes[i].id /\ ~ nodeList[j].copied
            THEN nodeList[indexOf(nodeList, snapshot.nodes[i].id)]
            ELSE snapshot.nodes[i] ] ]

\* a variant that restores no saved position on a later render
appliedPosition_NeverSaved(initial, optimal, saved, id) ==
    IF initial /\ id \in DOMAIN optimal THEN optimal[id] ELSE Unset

\* nodes.forEach(node => ...): on the first render optimalPositions.get(node.id), on
\* a later one currentNodePositions.current.get(node.id); x and y stay undefined
\* when the map has no entry
appliedPosition(initial, optimal, saved, id) ==
    IF initial
    THEN (IF id \in DOMAIN optimal THEN optimal[id] ELSE Unset)
    ELSE (IF id \in DOMAIN saved THEN saved[id] ELSE Unset)

\* colinNode.fx = width / 2; colinNode.fy = height / 2 for the node of the root id
pinOf(id) == IF id = COLIN_USER_ID THEN canvasCentre ELSE Unset

\* d3.forceSimulation(nodes): a pinned node is put on its pin, a node without x and
\* y gets the engine's default arrangement
initializeNode(node, index) ==
    IF node.fixed # Unset THEN [node EXCEPT !.position = node.fixed]
    ELSE IF node.position = Unset THEN [node EXCEPT !.position = phyllotaxisPosition(index)]
    ELSE node

\* d3.forceLink(links).id(d => d.id) looks every endpoint id up among the nodes and
\* throws "node not found" for an id that is not there
missingEndpoint(nodeList, linkList) ==
    \E i \in 1..Len(linkList) :
        \/ linkList[i].source \notin NodeIds(nodeList)
        \/ linkList[i].target \notin NodeIds(nodeList)

\* the orders cliqueIds.sort can leave the clique ids in: the coordinates come from
\* the planner or the engine, so the angles of the centres may be in any order;
\* without any positioned member every comparison is 0 and the order stays
sortOutcomes(cliques, positions) ==
    LET cliqueIds == SortedSeq(DOMAIN cliques)
    IN  IF \A c \in DOMAIN cliques : cliques[c] \cap DOMAIN positions = {}
        THEN {cliqueIds}
        ELSE { order \in [1..Len(cliqueIds) -> DOMAIN cliques] :
                 \A i, j \in 1..Len(cliqueIds) : i # j => order[i] # order[j] }

\* .distance(...) and .strength(...) evaluated for every link
linkHintsOf(show, nodeToLargestClique, linkList) ==
    [ i \in 1..Len(linkList) |->
        [distance |-> linkDistance(show, nodeToLargestClique, linkList[i]),
         strength |-> linkStrength(show, nodeToLargestClique, linkList[i])] ]

\* the snapshots: the nodes first..n, every pair of 1..n linked one way or not
SnapshotLinkings == {"none", "oneway"}

Snapshots ==
    { [ nodes |-> NodeListOf(first, n),
        links |-> RawLinkListOf(PairsOver(n), linkingOf) ] :
      <<n, first, linkingOf>> \in
          UNION { {n} \X {1, 2} \X [PairsOver(n) -> SnapshotLinkings] :
                  n \in 0..MaxGraphNodes } }

\* NetworkGraph is mounted with a snapshot: useState(true), useState(false),
\* useRef(true), useRef(new Map()); its effect has not run yet
Init ==
    /\ pc = "mounted"
    /\ data \in Snapshots
    /\ hideLeafNodes = TRUE
    /\ showComponents = FALSE
    /\ isInitialRender = TRUE
    /\ currentNodePositions = <<>>
    /\ processedData = emptyData /\ reprocessedData = emptyData
    /\ nodes = <<>> /\ originalLinks = <<>> /\ links = <<>>
    /\ cliqueMemberships = noCliqueMemberships
    /\ optimalPositions = <<>>
    /\ plannerCalled = FALSE
    /\ handedNodes = <<>>
    /\ componentColors = <<>>
    /\ linkHints = <<>>
    /\ dragSubject = 0
    /\ ticks = 0
    /\ drags = 0
    /\ NotSearching

\* a variant that keeps the entries of the given nodes only
savedPositions_OnlyRendered(saved, nodeList) ==
    [ id \in NodeIds(nodeList) |-> nodeList[indexOf(nodeList, id)].position ]

\* nodes.forEach(node => { if (node.x !== undefined && node.y !== undefined)
\* currentNodePositions.current.set(node.id, { x: node.x, y: node.y }) }): the cache
\* after the listener has run over the given nodes
savedPositions(saved, nodeList) ==
    [ id \in DOMAIN saved \cup { nodeList[i].id : i \in { j \in 1..Len(nodeList) :
                                                          nodeList[j].position # Unset } } |->
        IF \E i \in 1..Len(nodeList) : nodeList[i].id = id /\ nodeList[i].position # Unset
        THEN nodeList[indexOf(nodeList, id)].position
        ELSE saved[id] ]

\* the render effect, run after the mount and after every change of an option: the
\* whole of useEffect(() => {...}, [data, hideLeafNodes, showComponents, ...]).
\* When d3.forceLink throws, the effect ends there: isInitialRender.current keeps
\* its value, no tick listener is registered and React unmounts the component.
RunEffect ==
    /\ pc \in {"mounted", "stale"}
    /\ LET processed == processNetworkData(data, hideLeafNodes)
           newLinks == normalizeLinks(processed.links)
           memberships == IF showComponents
                          THEN getNodeCliqueMemberships(processed.nodes, newLinks)
                          ELSE noCliqueMemberships
           thrown == missingEndpoint(processed.nodes, newLinks)
       IN  \E random \in IF isInitialRender
                         THEN { [i \in 1..Len(processed.nodes) |-> draw] :
                                draw \in RandomDraws }
                         ELSE {[i \in 1..Len(processed.nodes) |-> 0]} :
             LET optimal == IF isInitialRender
                            THEN calculateOptimalPositions(processed.nodes, newLinks,
                                                           showComponents, random)
                            ELSE currentNodePositions
                 handed == [ i \in 1..Len(processed.nodes) |->
                               renderedNode(processed.nodes[i],
                                   appliedPosition(isInitialRender, optimal,
                                       currentNodePositions, processed.nodes[i].id),
                                   pinOf(processed.nodes[i].id)) ]
             IN  /\ processedData' = processed
                 /\ originalLinks' = processed.links
                 /\ links' = newLinks
                 /\ optimalPositions' = optimal
                 /\ plannerCalled' = isInitialRender
                 /\ cliqueMemberships' = memberships
                 /\ IF showComponents /\ DOMAIN memberships.allCliques # {}
                    THEN \E sortedCliques \in sortOutcomes(memberships.allCliques, optimal) :
                             componentColors' = colorsOf(sortedCliques)
                    ELSE componentColors' = defaultPalette
                 /\ handedNodes' = handed
                 /\ nodes' = [ i \in 1..Len(handed) |-> initializeNode(handed[i], i - 1) ]
                 /\ linkHints' = IF thrown THEN <<>>
                                 ELSE linkHintsOf(showComponents,
                                                  memberships.nodeToLargestClique, newLinks)
                 /\ isInitialRender' = (thrown /\ isInitialRender)
                 /\ pc' = IF thrown THEN "crashed" ELSE "rendered"
    /\ dragSubject' = 0
    /\ UNCHANGED <<hideLeafNodes, showComponents, currentNodePositions,
                   reprocessedData, ticks, drags>>
    /\ data' = snapshotAfterWrites(data, nodes')
    /\ UNCHANGED searchVars

\* onChange={(e) => setHideLeafNodes(e.target.checked)}: the checkbox is clicked,
\* which no pointer in a drag gesture can do; the effect runs before anything else
ToggleHideLeafNodes ==
    /\ pc = "rendered"
    /\ dragSubject = 0
    /\ hideLeafNodes' = ~ hideLeafNodes
    /\ pc' = "stale"
    /\ UNCHANGED <<data, processedData, reprocessedData, nodes, originalLinks, links,
                   cliqueMemberships, showComponents, isInitialRender,
                   currentNodePositions, optimalPositions, plannerCalled, handedNodes,
                   componentColors, linkHints, dragSubject, ticks, drags>>
    /\ UNCHANGED searchVars

\* onChange={(e) => setShowComponents(e.target.checked)}
ToggleShowComponents ==
    /\ pc = "rendered"
    /\ dragSubject = 0
    /\ showComponents' = ~ showComponents
    /\ pc' = "stale"
    /\ UNCHANGED <<data, hideLeafNodes, processedData, reprocessedData, nodes,
                   originalLinks, links, cliqueMemberships, isInitialRender,
                   currentNodePositions, optimalPositions, plannerCalled, handedNodes,
                   componentColors, linkHints, dragSubject, ticks, drags>>
    /\ UNCHANGED searchVars

\* one step of the simulation followed by its "tick" listener: the engine puts a
\* pinned node on its pin and moves every other node, and the listener saves the
\* position of every node that has x and y
Tick ==
    /\ pc = "rendered"
    /\ ticks < MaxTicks
    /\ ticks' = ticks + 1
    /\ nodes' = [ i \in 1..Len(nodes) |->
                    [nodes[i] EXCEPT !.position = IF nodes[i].fixed # Unset
                                                  THEN nodes[i].fixed
                                                  ELSE tickPosition(ticks + 1)] ]
    /\ currentNodePositions' = savedPositions(currentNodePositions, nodes')
    /\ UNCHANGED <<pc, hideLeafNodes, processedData, reprocessedData,
                   originalLinks, links, cliqueMemberships, showComponents,
                   isInitialRender, optimalPositions, plannerCalled, handedNodes,
                   componentColors, linkHints, dragSubject, drags>>
    /\ data' = snapshotAfterWrites(data, nodes')
    /\ UNCHANGED searchVars

\* .on("start", (event, d) => { d.fx = d.x; d.fy = d.y; }) on the group of any node
DragStart ==
    /\ pc = "rendered"
    /\ dragSubject = 0
    /\ drags < MaxDrags
    /\ \E i \in 1..Len(nodes) :
         /\ nodes' = [nodes EXCEPT ![i].fixed = nodes[i].position]
         /\ dragSubject' = i
    /\ drags' = drags + 1
    /\ UNCHANGED <<pc, hideLeafNodes, processedData, reprocessedData,
                   originalLinks, links, cliqueMemberships, showComponents,
                   isInitialRender, currentNodePositions, optimalPositions,
                   plannerCalled, handedNodes, componentColors, linkHints, ticks>>
    /\ data' = snapshotAfterWrites(data, nodes')
    /\ UNCHANGED searchVars

\* .on("drag", (event, d) => { d.fx = event.x; d.fy = event.y; })
Drag ==
    /\ dragSubject # 0
    /\ \E pointer \in PointerPositions :
         nodes' = [nodes EXCEPT ![dragSubject].fixed = pointer]
    /\ UNCHANGED <<pc, hideLeafNodes, processedData, reprocessedData,
                   originalLinks, links, cliqueMemberships, showComponents,
                   isInitialRender, currentNodePositions, optimalPositions,
                   plannerCalled, handedNodes, componentColors, linkHints,
                   dragSubject, ticks, drags>>
    /\ data' = snapshotAfterWrites(data, nodes')
    /\ UNCHANGED searchVars

\* .on("end", ...): fx and fy are kept, the node stays where it was dragged
DragEnd ==
    /\ dragSubject # 0
    /\ dragSubject' = 0
    /\ UNCHANGED <<pc, data, hideLeafNodes, processedData, reprocessedData, nodes,
                   originalLinks, links, cliqueMemberships, showComponents,
                   isInitialRender, currentNodePositions, optimalPositions,
                   plannerCalled, handedNodes, componentColors, linkHints, ticks,
                   drags>>
    /\ UNCHANGED searchVars

Next ==
    \/ RunEffect
    \/ ToggleHideLeafNodes
    \/ ToggleShowComponents
    \/ Tick
    \/ DragStart
    \/ Drag
    \/ DragEnd

Spec == Init /\ [][Next]_vars

-----------------------------------------------------------------------------
(* Properties of the clique finder and of the membership resolver *)

\* two ids are joined by a link of the list, in either orientation
Joined(linkList, a, b) ==
    \E i \in 1..Len(linkList) :
        \/ linkList[i].source = a /\ linkList[i].target = b
        \/ linkList[i].source = b /\ linkList[i].target = a

IsComplete(linkList, S) == \A a, b \in S : a # b => Joined(linkList, a, b)

\* the maximal complete subgraphs of the graph (nodeList, linkList), by definition
MaximalCliques(nodeList, linkList) ==
    { S \in SUBSET NodeIds(nodeList) :
        /\ IsComplete(linkList, S)
        /\ \A v \in NodeIds(nodeList) \ S : ~ \A a \in S : Joined(linkList, v, a) }

HasTriangle(nodeList, linkList) ==
    \E S \in SUBSET NodeIds(nodeList) : Cardinality(S) = 3 /\ IsComplete(linkList, S)

Reported == { cliqueMemberships.allCliques[i] : i \in DOMAIN cliqueMemberships.allCliques }

\* C1: findAllCliques is complete: every maximal clique of at least 3 members is
\* reported, and under one clique id only; a complete graph on n >= 3 nodes gives
\* exactly one clique, holding all n nodes, and a graph with no triangle gives none.
C1_Completeness ==
    pc = "memberships" =>
        LET allCliques == cliqueMemberships.allCliques IN
        /\ \A S \in MaximalCliques(nodes, links) : Cardinality(S) >= 3 => S \in Reported
        /\ \A i, j \in DOMAIN allCliques : i # j => allCliques[i] # allCliques[j]
        /\ (Len(nodes) >= 3 /\ IsComplete(links, NodeIds(nodes)))
              => (DOMAIN allCliques = {0} /\ allCliques[0] = NodeIds(nodes))
        /\ ~ HasTriangle(nodes, links) => DOMAIN allCliques = {}

\* two maximal cliques that share members have both been reported
C1_Witness ==
    /\ pc = "memberships"
    /\ \E S, T \in MaximalCliques(nodes, links) :
          /\ S # T /\ S \cap T # {}
          /\ Cardinality(S) >= 3 /\ Cardinality(T) >= 3
          /\ S \in Reported /\ T \in Reported

\* C2: findAllCliques is sound: every reported member set has at least 3 members,
\* all of them ids of the node list, and every two of them are joined by a link.
C2_Soundness ==
    pc = "memberships" =>
        \A S \in Reported :
            /\ Cardinality(S) >= 3
            /\ S \subseteq NodeIds(nodes)
            /\ IsComplete(links, S)

\* a clique is reported in a graph that also has an edge outside every triangle
C2_Witness ==
    /\ pc = "memberships"
    /\ Reported # {}
    /\ \E S \in MaximalCliques(nodes, links) : Cardinality(S) = 2

\* C3: every reported clique is maximal: none is a subset of another reported one,
\* and no node outside a reported clique is joined to all of its members.
C3_Maximality ==
    pc = "memberships" =>
        /\ \A S, T \in Reported : S \subseteq T => S = T
        /\ \A S \in Reported :
              \A v \in NodeIds(nodes) \ S : ~ \A a \in S : Joined(links, v, a)

\* a reported clique of 3 next to a reported clique of 4 or more
C3_Witness ==
    /\ pc = "memberships"
    /\ \E S, T \in Reported : Cardinality(S) = 3 /\ Cardinality(T) >= 4

\* C10: a node's membership list holds exactly the ids of the reported cliques that
\* contain the node, in discovery (increasing id) order, and a node in no clique
\* has no entry.
C10_Memberships ==
    pc = "memberships" =>
        LET allCliques == cliqueMemberships.allCliques
            nodeToAllCliques == cliqueMemberships.nodeToAllCliques
        IN  /\ DOMAIN nodeToAllCliques =
                 { id \in NodeIds(nodes) : \E c \in DOMAIN allCliques : id \in allCliques[c] }
            /\ \A id \in DOMAIN nodeToAllCliques :
                 LET list == nodeToAllCliques[id] IN
                 /\ Range(list) = { c \in DOMAIN allCliques : id \in allCliques[c] }
                 /\ \A i, j \in 1..Len(list) : i < j => list[i] < list[j]

\* one node in two cliques, another in one, a third in none
C10_Witness ==
    /\ pc = "memberships"
    /\ \E a, b, c \in NodeIds(nodes) :
          /\ a \in DOMAIN cliqueMemberships.nodeToAllCliques
          /\ Len(cliqueMemberships.nodeToAllCliques[a]) >= 2
          /\ b \in DOMAIN cliqueMemberships.nodeToAllCliques
          /\ Len(cliqueMemberships.nodeToAllCliques[b]) = 1
          /\ c \notin DOMAIN cliqueMemberships.nodeToAllCliques

-----------------------------------------------------------------------------
(* Properties of the edge normalization *)

\* the raw list holds a link from a to b
HasRawLink(linkList, a, b) ==
    \E i \in 1..Len(linkList) : linkList[i].source = a /\ linkList[i].target = b

\* C4: the normalized list holds at most one edge per unordered pair and is never
\* longer than the raw list, whatever edges the raw list repeats.
C4_OneEdgePerPair ==
    pc = "normalized" =>
        /\ \A i, j \in 1..Len(links) :
              i # j => pairKeyOf(links[i].source, links[i].target)
                         # pairKeyOf(links[j].source, links[j].target)
        /\ Len(links) <= Len(originalLinks)

\* C5: a normalized edge is flagged bidirectional exactly when the raw list holds
\* both directions of its pair, in whatever order and with whatever types.
C5_MutualIffBothDirections ==
    pc = "normalized" =>
        \A i \in 1..Len(links) :
            links[i].bidirectional <=>
                /\ HasRawLink(originalLinks, links[i].source, links[i].target)
                /\ HasRawLink(originalLinks, links[i].target, links[i].source)

\* a pair whose reverse direction comes first and carries another type is flagged,
\* next to a one-way pair typed 'mutual' that is not
C5_Witness ==
    /\ pc = "normalized"
    /\ \E i, j \in 1..Len(originalLinks) :
          /\ i < j
          /\ originalLinks[i].source = originalLinks[j].target
          /\ originalLinks[i].target = originalLinks[j].source
          /\ originalLinks[i].source > originalLinks[i].target
          /\ originalLinks[i].type # originalLinks[j].type
    /\ \E k \in 1..Len(originalLinks) :
          /\ originalLinks[k].type = "mutual"
          /\ ~ HasRawLink(originalLinks, originalLinks[k].target, originalLinks[k].source)
    /\ \E i, j \in 1..Len(links) : links[i].bidirectional /\ ~ links[j].bidirectional

-----------------------------------------------------------------------------
(* Properties of the leaf condenser *)

\* the ids a node is linked with, in either direction
UniqueNeighbours(linkList, id) ==
    { linkList[i].target : i \in { j \in 1..Len(linkList) : linkList[j].source = id } }
    \cup
    { linkList[i].source : i \in { j \in 1..Len(linkList) : linkList[j].target = id } }

\* the leaves of a graph: not the root, at most one unique neighbour
Leaves(graph) ==
    { id \in NodeIds(graph.nodes) :
        id # COLIN_USER_ID /\ Cardinality(UniqueNeighbours(graph.links, id)) <= 1 }

PlaceholderCount(graph) ==
    Cardinality({ i \in 1..Len(graph.nodes) : graph.nodes[i].id = CONDENSED_LEAVES })

RootPlaceholderLinks(graph) ==
    { i \in 1..Len(graph.links) :
        {graph.links[i].source, graph.links[i].target} = {COLIN_USER_ID, CONDENSED_LEAVES} }

IdsOf(nodeList) == [ i \in 1..Len(nodeList) |-> nodeList[i].id ]

PairsOf(linkList) == { {linkList[i].source, linkList[i].target} : i \in 1..Len(linkList) }

\* C6: with leaf-hiding enabled and at least one leaf, the output nodes are the
\* input nodes that are not leaves plus one placeholder labelled with the number of
\* leaves, and the output links are the input links with no leaf endpoint plus
\* exactly one link between the root and the placeholder; the triangle 1-2-3 with
\* the pendant 4 off the root gives nodes 1, 2, 3, placeholder and the links 1-2,
\* 2-3, 3-1, 1-placeholder.
C6_Condensed ==
    (pc = "processed" /\ hideLeafNodes /\ Leaves(data) # {}) =>
        /\ processedData.nodes =
              Append(SelectSeq(data.nodes, LAMBDA node : node.id \notin Leaves(data)),
                     [id |-> CONDENSED_LEAVES,
                      username |-> <<"leaf connections", Cardinality(Leaves(data))>>])
        /\ SubSeq(processedData.links, 1, Len(processedData.links) - 1) =
              SelectSeq(data.links, LAMBDA link : link.source \notin Leaves(data)
                                                   /\ link.target \notin Leaves(data))
        /\ Cardinality(RootPlaceholderLinks(processedData)) = 1
        /\ (IdsOf(data.nodes) = <<1, 2, 3, 4>>
               /\ PairsOf(data.links) = {{1, 2}, {2, 3}, {1, 3}, {1, 4}})
             => /\ IdsOf(processedData.nodes) = <<1, 2, 3, CONDENSED_LEAVES>>
                /\ PairsOf(processedData.links) =
                      {{1, 2}, {2, 3}, {1, 3}, {COLIN_USER_ID, CONDENSED_LEAVES}}

\* the triangle with a pendant off the root, one of its pairs linked both ways
C6_Witness ==
    /\ pc = "processed" /\ hideLeafNodes
    /\ IdsOf(data.nodes) = <<1, 2, 3, 4>>
    /\ PairsOf(data.links) = {{1, 2}, {2, 3}, {1, 3}, {1, 4}}
    /\ Len(data.links) > 4
    /\ Leaves(data) = {4}

\* C7: the output holds the root whenever the input does; it holds exactly one
\* placeholder when leaf-hiding is enabled and the input has a leaf; otherwise it
\* is the input, with no placeholder; it never holds two placeholders.
C7_RootKeptOnePlaceholder ==
    pc = "processed" =>
        /\ COLIN_USER_ID \in NodeIds(data.nodes)
              => COLIN_USER_ID \in NodeIds(processedData.nodes)
        /\ IF hideLeafNodes /\ Leaves(data) # {}
           THEN PlaceholderCount(processedData) = 1
           ELSE processedData = data /\ PlaceholderCount(processedData) = 0
        /\ PlaceholderCount(processedData) <= 1

\* leaves are condensed around a root that itself has a single neighbour
C7_Witness ==
    /\ pc = "processed" /\ hideLeafNodes
    /\ COLIN_USER_ID \in NodeIds(data.nodes)
    /\ Cardinality(UniqueNeighbours(data.links, COLIN_USER_ID)) = 1
    /\ Leaves(data) # {}
    /\ Len(processedData.nodes) >= 3

\* the nodes of a condensed graph, the placeholder aside, that are leaves in it
NewLeaves(graph) == Leaves(graph) \ {CONDENSED_LEAVES}

C9_PlaceholderNeverLeaf ==
    (pc = "reprocessed" /\ PlaceholderCount(processedData) = 1) =>
        LET leafNodes == leafNodesOf(processedData)
            oldPlaceholder == processedData.nodes[Len(processedData.nodes)]
        IN  /\ \A i \in 1..Len(leafNodes) : leafNodes[i].id # CONDENSED_LEAVES
            /\ oldPlaceholder \in Range(reprocessedData.nodes)
            /\ \A i \in 1..Len(reprocessedData.nodes) :
                  (reprocessedData.nodes[i].id = CONDENSED_LEAVES
                     /\ reprocessedData.nodes[i] # oldPlaceholder)
                  => reprocessedData.nodes[i].username =
                       <<"leaf connections", Cardinality(NewLeaves(processedData))>>

\* C11: a node's dominant clique is one of the cliques that contain it, no clique that
\* contains the node has more members, and among those of the same size it has the
\* lowest id; the nodes with a dominant clique are exactly the members of the
\* reported cliques.
C11_DominantClique ==
    pc = "memberships" =>
        LET allCliques == cliqueMemberships.allCliques
            nodeToLargestClique == cliqueMemberships.nodeToLargestClique
        IN  /\ DOMAIN nodeToLargestClique =
                 { id \in NodeIds(nodes) : \E c \in DOMAIN allCliques : id \in allCliques[c] }
            /\ \A c \in DOMAIN allCliques : allCliques[c] \subseteq DOMAIN nodeToLargestClique
            /\ \A id \in DOMAIN nodeToLargestClique :
                 LET largest == nodeToLargestClique[id] IN
                 /\ largest \in DOMAIN allCliques
                 /\ id \in allCliques[largest]
                 /\ \A c \in DOMAIN allCliques : id \in allCliques[c] =>
                       \/ Cardinality(allCliques[c]) < Cardinality(allCliques[largest])
                       \/ /\ Cardinality(allCliques[c]) = Cardinality(allCliques[largest])
                          /\ largest <= c

\* one node lies in two cliques of the same size and another node of the list is in
\* no clique
C11_Witness ==
    /\ pc = "memberships"
    /\ LET allCliques == cliqueMemberships.allCliques
           nodeToLargestClique == cliqueMemberships.nodeToLargestClique
       IN  /\ \E id \in DOMAIN nodeToLargestClique :
                \E c \in DOMAIN allCliques :
                    /\ c # nodeToLargestClique[id] /\ id \in allCliques[c]
                    /\ Cardinality(allCliques[c]) =
                           Cardinality(allCliques[nodeToLargestClique[id]])
           /\ NodeIds(nodes) \ DOMAIN nodeToLargestClique # {}

\* the member sets of the cliques the effect's pipeline finds in a graph: the
\* links are normalized, then handed to findAllCliques with the nodes
CliqueFamilyOf(graph) ==
    LET allCliques == findAllCliques(graph.nodes, normalizeLinks(graph.links))
    IN  { allCliques[c] : c \in DOMAIN allCliques }

\* C30: the cliques found in the condensed graph have the same member sets as
\* those found in the snapshot itself, and the placeholder is in none of them
C30_CondensingKeepsCliques ==
    (pc # "init" /\ hideLeafNodes) =>
        /\ CliqueFamilyOf(processedData) = CliqueFamilyOf(data)
        /\ \A S \in CliqueFamilyOf(processedData) : CONDENSED_LEAVES \notin S

\* a snapshot with a clique and a leaf was condensed: the placeholder is in the
\* graph and the clique is still found
C30_Witness ==
    /\ pc = "processed" /\ hideLeafNodes
    /\ CONDENSED_LEAVES \in NodeIds(processedData.nodes)
    /\ CliqueFamilyOf(processedData) # {}
    /\ \E S \in CliqueFamilyOf(data) : COLIN_USER_ID \in S

-----------------------------------------------------------------------------
(* Properties of the mounted component *)

\* C12: in every reachable state, whatever recomputes, toggles, animation steps and
\* drags led to it, the node of the root id, when it is among the rendered nodes, is
\* pinned and its pin is exactly the canvas centre
C12_RootPinnedAtCentre ==
    \A i \in 1..Len(nodes) :
        nodes[i].id = COLIN_USER_ID => nodes[i].fixed = canvasCentre

\* the node set and the edge set of a render
graphOf(nodeList, linkList) == <<NodeIds(nodeList), Range(linkList)>>

\* C13: a recompute calls the planner exactly when it is the first one or when its
\* node/edge set differs from that of the recompute before it
C13_PlansOnFirstOrChangedGraph ==
    [][ (pc \in {"mounted", "stale"} /\ pc' = "rendered")
            => (plannerCalled' <=> (\/ pc = "mounted"
                                    \/ graphOf(nodes', links') # graphOf(nodes, links))) ]_vars

\* the coordinates handed to the renderer are a layout the planner makes of the
\* rendered graph in the mode selected by show
handedLayoutOf(show) ==
    \E draw \in RandomDraws :
        LET planned == calculateOptimalPositions(processedData.nodes, links, show,
                           [i \in 1..Len(processedData.nodes) |-> draw])
        IN  \A i \in 1..Len(handedNodes) :
                handedNodes[i].position = planned[handedNodes[i].id]

\* C14: the initial coordinates a recompute hands to the renderer are a layout of
\* the mode its show-cliques option selects: a cluster-mode layout whenever the
\* option is enabled at the recompute (so also when it was switched on after the
\* initial load), and a scatter-mode layout when the planner ran with it disabled
C14_LayoutModeMatchesShowCliques ==
    pc = "rendered" =>
        IF showComponents THEN handedLayoutOf(TRUE)
        ELSE plannerCalled => handedLayoutOf(FALSE)

\* C15: after every recompute, every node handed to the renderer carries an initial
\* coordinate {x, y}
C15_EveryNodeHasCoordinates ==
    pc = "rendered" =>
        \A i \in 1..Len(handedNodes) : handedNodes[i].position # Unset

\* C16: a recompute that is not the first, whose node/edge set is that of the
\* recompute before it and whose nodes all have an entry in the position cache,
\* gives every node the coordinate of its cache entry and leaves the cache as it was
C16_CachedCoordinatesReused ==
    [][ ( /\ pc = "stale" /\ pc' = "rendered"
          /\ graphOf(nodes', links') = graphOf(nodes, links)
          /\ NodeIds(nodes') \subseteq DOMAIN currentNodePositions )
        => ( /\ \A i \in 1..Len(handedNodes') :
                   handedNodes'[i].position = currentNodePositions[handedNodes'[i].id]
             /\ currentNodePositions' = currentNodePositions ) ]_vars

\* show-cliques was switched on after a tick had saved the positions of the three or
\* more rendered nodes: the planner did not run and every node was handed over with
\* its saved position, one of them computed by the engine
C16_Witness ==
    /\ pc = "rendered" /\ ~ plannerCalled
    /\ showComponents /\ hideLeafNodes
    /\ ticks = 1 /\ drags = 0
    /\ Len(handedNodes) >= 3
    /\ \A i \in 1..Len(handedNodes) :
           /\ handedNodes[i].id \in DOMAIN currentNodePositions
           /\ handedNodes[i].position = currentNodePositions[handedNodes[i].id]
    /\ \E i \in 1..Len(handedNodes) : handedNodes[i].position.kind = "tick"

\* show-cliques is enabled and the two endpoints of the rendered edge number i have
\* a dominant clique, the same one
InOneDominantClique(i) ==
    LET dominant == cliqueMemberships.nodeToLargestClique
    IN  /\ showComponents
        /\ links[i].source \in DOMAIN dominant
        /\ links[i].target \in DOMAIN dominant
        /\ dominant[links[i].source] = dominant[links[i].target]

\* the hints every edge gets while show-cliques is disabled
HintsWhenDisabled ==
    [distance |-> linkDistance(FALSE, <<>>, [source |-> 0, target |-> 0]),
     strength |-> linkStrength(FALSE, <<>>, [source |-> 0, target |-> 0])]

\* C17: an edge gets a distance strictly shorter and a strength strictly higher
\* than the default exactly when show-cliques is enabled and its endpoints have the
\* same defined dominant clique; every other edge, with show-cliques enabled or
\* disabled, gets one and the same default distance and strength (the hints of
\* the disabled mode, where every edge is such an edge)
C17_OneDefaultForOtherEdges ==
    pc = "rendered" =>
        \A i \in 1..Len(links) :
            IF InOneDominantClique(i)
            THEN /\ linkHints[i].distance < HintsWhenDisabled.distance
                 /\ linkHints[i].strength > HintsWhenDisabled.strength
            ELSE linkHints[i] = HintsWhenDisabled

\* C17, amended: an edge gets the shortest distance and the highest strength (80,
\* 0.8) exactly when show-cliques is enabled and its endpoints have the same
\* defined dominant clique; every other edge gets 120 and 0.3 while show-cliques
\* is disabled and a longer distance and a lower strength, 180 and 0.1, while it
\* is enabled
C17_HintsByOptionAndClique ==
    pc = "rendered" =>
        \A i \in 1..Len(links) :
            /\ linkHints[i] = IF InOneDominantClique(i)
                              THEN [distance |-> 80, strength |-> 8]
                              ELSE IF showComponents
                              THEN [distance |-> 180, strength |-> 1]
                              ELSE [distance |-> 120, strength |-> 3]
            /\ InOneDominantClique(i)
                   <=> /\ linkHints[i].distance < HintsWhenDisabled.distance
                       /\ linkHints[i].strength > HintsWhenDisabled.strength

\* show-cliques is enabled and the rendered edges, all with their hints, include
\* one inside a dominant clique and one that leaves a clique
C17_Witness ==
    /\ pc = "rendered" /\ showComponents
    /\ \E i \in 1..Len(links) : InOneDominantClique(i)
    /\ \E i \in 1..Len(links) :
           /\ links[i].source \in DOMAIN cliqueMemberships.nodeToLargestClique
           /\ links[i].target \notin DOMAIN cliqueMemberships.nodeToLargestClique
    /\ Len(linkHints) = Len(links)

\* C19: the normalized edge list of a recompute holds no edge made from a raw edge
\* with an endpoint outside the node set: every normalized edge other than the
\* link to the placeholder, which the condenser adds, joins two rendered nodes
C19_UnknownEndpointsDropped ==
    \A i \in 1..Len(links) :
        links[i].target # CONDENSED_LEAVES
            => /\ links[i].source \in NodeIds(nodes)
               /\ links[i].target \in NodeIds(nodes)

\* the snapshot has no node of the root id and no raw edge that names it
RootAbsent ==
    /\ COLIN_USER_ID \notin NodeIds(data.nodes)
    /\ \A i \in 1..Len(data.links) :
           /\ sourceIdOf(data.links[i]) # COLIN_USER_ID
           /\ targetIdOf(data.links[i]) # COLIN_USER_ID

\* C20: when the root id is not in the node set, every recompute, whatever the two
\* options are, completes and hands over a bundle in which no node is pinned and
\* the root id is no endpoint of an edge and has no position entry
C20_RendersWithoutRoot ==
    (RootAbsent /\ pc \in {"rendered", "crashed"}) =>
        /\ pc = "rendered"
        /\ \A i \in 1..Len(handedNodes) : handedNodes[i].fixed = Unset
        /\ \A i \in 1..Len(links) :
               /\ links[i].source # COLIN_USER_ID
               /\ links[i].target # COLIN_USER_ID
        /\ COLIN_USER_ID \notin DOMAIN optimalPositions

\* the planner puts every node of the rendered graph on the same circle and in the
\* same angular slot in cluster mode as in scatter mode
ClusterLayoutIsScatterLayout ==
    \A draw \in RandomDraws :
        LET random == [i \in 1..Len(processedData.nodes) |-> draw]
            cluster == calculateOptimalPositions(processedData.nodes, links, TRUE, random)
            scatter == calculateOptimalPositions(processedData.nodes, links, FALSE, random)
        IN  \A id \in NodeIds(processedData.nodes) :
                /\ ringRadiusOf(cluster[id]) = ringRadiusOf(scatter[id])
                /\ cluster[id].slot = scatter[id].slot
                /\ cluster[id].slots = scatter[id].slots

\* C21: on a graph without triangle rendered with show-cliques enabled, the clique
\* set and both membership mappings are empty, the colour table is the default
\* palette, every edge gets the default hints, and the planner in cluster mode
\* gives every node the ring radius and the angular slot of scatter mode
C21_NoTriangleMeansDefaults ==
    (pc = "rendered" /\ showComponents /\ ~ HasTriangle(nodes, links)) =>
        /\ DOMAIN cliqueMemberships.allCliques = {}
        /\ DOMAIN cliqueMemberships.nodeToAllCliques = {}
        /\ DOMAIN cliqueMemberships.nodeToLargestClique = {}
        /\ componentColors = defaultPalette
        /\ \A i \in 1..Len(links) : linkHints[i] = HintsWhenDisabled
        /\ ClusterLayoutIsScatterLayout

\* C22: for the empty snapshot, whatever the two options are, every stage of a
\* recompute gives an empty result and none fails: no placeholder node and no
\* root-placeholder edge, an empty normalized edge list, an empty clique set, empty
\* membership mappings and an empty layout result
C22_EmptySnapshotGivesEmptyResults ==
    (data = emptyData /\ pc # "mounted") =>
        /\ pc # "crashed"
        /\ processedData = emptyData
        /\ originalLinks = <<>> /\ links = <<>>
        /\ DOMAIN cliqueMemberships.allCliques = {}
        /\ DOMAIN cliqueMemberships.nodeToAllCliques = {}
        /\ DOMAIN cliqueMemberships.nodeToLargestClique = {}
        /\ DOMAIN optimalPositions = {}
        /\ handedNodes = <<>> /\ nodes = <<>>

\* the empty snapshot was rendered again after both options had been switched
C22_Witness ==
    /\ data = emptyData
    /\ pc = "rendered" /\ ~ plannerCalled
    /\ showComponents /\ ~ hideLeafNodes
    /\ ticks > 0

\* C23: the position cache is the only state carried from one recompute to the
\* next, so two recomputes of the snapshot with the same options and the same
\* cache contents take the same decisions; the first recompute has leaf-hiding
\* on, show-cliques off and an empty cache and calls the planner, hence so does
\* every recompute with these options and an empty cache
C23_SameInputsSameDecision ==
    [][ ( /\ pc \in {"mounted", "stale"} /\ pc' # pc
          /\ hideLeafNodes /\ ~ showComponents
          /\ currentNodePositions = <<>> )
        => plannerCalled' ]_vars

\* the ids of a node list, in its order
idListOf(nodeList) == [ i \in 1..Len(nodeList) |-> nodeList[i].id ]

\* C24: no step (recompute, toggle, animation step, drag) changes the snapshot:
\* its node sequence and its edge sequence stay those that were loaded, without
\* placeholder, without coordinates or pins in its nodes; and a recompute with
\* leaf-hiding off renders the node and edge set of the snapshot
C24_SnapshotNeverModified ==
    [][ /\ data' = data
        /\ (pc' = "rendered" /\ ~ hideLeafNodes')
               => /\ idListOf(nodes') = idListOf(data.nodes)
                  /\ originalLinks' = data.links ]_vars

\* leaf-hiding was switched off after the leaves of the snapshot had been replaced
\* by the placeholder, the engine had moved the nodes and a node had been dragged:
\* the leaves are rendered again
C24_Witness ==
    /\ pc = "rendered" /\ ~ hideLeafNodes /\ ~ plannerCalled
    /\ ticks > 0 /\ drags > 0
    /\ CONDENSED_LEAVES \in DOMAIN currentNodePositions
    /\ Len(leafNodesOf(data)) > 0
    /\ idListOf(nodes) = idListOf(data.nodes)

\* C26: an animation step or a recompute triggered by a toggle leaves every pinned
\* node that is still rendered pinned at the position it was pinned at (the root
\* at the centre, a dragged node where the user left it)
C26_PinsKept ==
    [][ (ticks' # ticks \/ (pc = "stale" /\ pc' # "stale"))
        => \A i \in 1..Len(nodes), j \in 1..Len(nodes') :
               (nodes[i].fixed # Unset /\ nodes'[j].id = nodes[i].id)
                   => nodes'[j].fixed = nodes[i].fixed ]_vars

\* C27: once the first recompute has completed and before any animation step, the
\* position cache holds, for every rendered node, the coordinate the planner gave it
C27_PlannerFillsCache ==
    (pc = "rendered" /\ plannerCalled /\ ticks = 0) =>
        \A i \in 1..Len(handedNodes) :
            /\ handedNodes[i].id \in DOMAIN currentNodePositions
            /\ currentNodePositions[handedNodes[i].id] = optimalPositions[handedNodes[i].id]

\* C29: every key of the position cache is the id of a node of the currently
\* rendered node set
C29_CacheKeysAreRendered ==
    pc = "rendered" => DOMAIN currentNodePositions \subseteq NodeIds(nodes)

\* C29, amended: every key of the position cache is the id of a node of the
\* snapshot or of the placeholder, an animation step gives every rendered node an
\* entry, and no step removes an entry: the key of a node that is no longer
\* rendered stays in the cache
C29_CacheKeysAreKept ==
    [][ /\ DOMAIN currentNodePositions \subseteq DOMAIN currentNodePositions'
        /\ DOMAIN currentNodePositions'
               \subseteq NodeIds(data.nodes) \cup {CONDENSED_LEAVES}
        /\ ticks' # ticks => NodeIds(nodes) \subseteq DOMAIN currentNodePositions' ]_vars

\* leaf-hiding was switched off after an animation step: the placeholder is not
\* rendered any more and still has its entry in the cache
C29_Witness ==
    /\ pc = "rendered" /\ ~ hideLeafNodes
    /\ CONDENSED_LEAVES \in DOMAIN currentNodePositions
    /\ CONDENSED_LEAVES \notin NodeIds(nodes)

-----------------------------------------------------------------------------
(* Properties of the step-by-step clique search *)

\* the Set objects an activation was called with
setsOf(frame) == {frame.candidates, frame.excluded}

\* the step-by-step search ends with what findAllCliques returns, and never
\* nests deeper than one activation per node and the first
SearchAgreesWithFindAllCliques ==
    /\ pc = "searched" => foundCliques.cliques = findAllCliques(nodes, links)
    /\ Len(callStack) <= MaxSearchNodes + 1

\* the members of currentClique are adjacent to one another, and every
\* candidate is adjacent to every member of currentClique
CliqueAndCandidatesAdjacent(frame) ==
    LET adj == adjacencyList(nodes, links) IN
    /\ \A a, b \in frame.currentClique : a # b => b \in neighborsOf(adj, a)
    /\ \A p \in Range(heap[frame.candidates]), r \in frame.currentClique :
           p \in neighborsOf(adj, r)

\* no Set object is held by two activations, or twice by one
SetsAreFresh ==
    /\ \A i \in DOMAIN callStack : callStack[i].candidates # callStack[i].excluded
    /\ \A i, j \in DOMAIN callStack :
           i # j => setsOf(callStack[i]) \cap setsOf(callStack[j]) = {}

\* a step changes no Set object but candidates and excluded of the running activation
OnlyOwnSetsChange ==
    \A ref \in DOMAIN heap :
        heap'[ref] # heap[ref] => (callStack # <<>> /\ ref \in setsOf(topFrame))

\* C25: in every activation of findCliques the members of currentClique are
\* pairwise adjacent and every candidate is adjacent to all of them; the
\* candidates and excluded sets of an activation are objects of its own, and
\* moving a candidate changes the sets of no other activation
C25_SearchInvariants ==
    [][ /\ \A i \in DOMAIN callStack' : CliqueAndCandidatesAdjacent(callStack[i])'
        /\ SetsAreFresh'
        /\ OnlyOwnSetsChange ]_vars

\* a call two levels down has just been entered with a clique of two members,
\* after its caller's caller has moved a candidate to its excluded set
C25_Witness ==
    /\ pc = "searching"
    /\ Len(callStack) >= 3
    /\ topFrame.at = "entry"
    /\ Cardinality(topFrame.currentClique) >= 2
    /\ heap[topFrame.candidates] # <<>>
    /\ heap[callStack[1].excluded] # <<>>

\* C28: findAllCliques returns on every input
C28_SearchTerminates == <>(pc = "searched")

\* the search has returned on an input with a link from a node to itself and a
\* link to an id outside the node list, after at least one recursive call
C28_Witness ==
    /\ pc = "searched"
    /\ \E i \in DOMAIN links : links[i].source = links[i].target
    /\ \E i \in DOMAIN links : links[i].source \notin NodeIds(nodes)
                               \/ links[i].target \notin NodeIds(nodes)
    /\ Len(heap) > 2

-----------------------------------------------------------------------------
(* Properties of the colorizer *)

\* the order the colorizer sorts the given cliques into
SortedForColors ==
    sortedCliquesOf(SortedSeq(DOMAIN cliqueMemberships.allCliques),
                    cliqueCentersOf(cliqueMemberships.allCliques, optimalPositions))

\* the hue of the clique of rank i - 1, in units of 2^-64 degrees
HueOfRank(i) == inUnits(componentColors[SortedForColors[i]].hue)

\* |a - b| for two naturals
Difference(a, b) == IF lessNat(a, b) THEN subNat(b, a) ELSE subNat(a, b)

\* degrees in units of 2^-64 degrees
Degrees(d) == shiftNat(natOf(d), 64)

\* the distance of two hues on the circle of 360 degrees
CircularDistance(a, b) ==
    LET apart == Difference(a, b)
        around == subNat(Degrees(360), apart)
    IN  IF lessNat(around, apart) THEN around ELSE apart

\* every clique has exactly one rank and one colour, the hue of rank r among n is
\* r / n * 360 up to 2^-44 degrees, and the hues are pairwise distinct
RanksAndHues ==
    LET n == Cardinality(DOMAIN cliqueMemberships.allCliques) IN
    /\ Len(SortedForColors) = n
    /\ Range(SortedForColors) = DOMAIN cliqueMemberships.allCliques
    /\ DOMAIN componentColors = DOMAIN cliqueMemberships.allCliques
    /\ \A i \in 1..n :
           leqNat(Difference(timesNat(HueOfRank(i), n), Degrees(360 * (i - 1))),
                  natOf(n * 2^20))
    /\ \A i, j \in 1..n : i # j => HueOfRank(i) # HueOfRank(j)

\* the rank after rank i - 1 on the circle
NextRank(i, n) == IF i = n THEN 1 ELSE i + 1

\* C18: on n cliques, 1 <= n <= 12, every clique id has exactly one rank 0..n-1,
\* its hue is rank / n * 360, the hues are pairwise distinct, and two cliques
\* adjacent in the sorted order, the last and the first included, have hues at a
\* circular distance of at most 360 / n degrees
C18_HueStepAtMostCircleShare ==
    pc = "colored" =>
        LET n == Cardinality(DOMAIN cliqueMemberships.allCliques) IN
        /\ RanksAndHues
        /\ \A i \in 1..n :
               leqNat(timesNat(CircularDistance(HueOfRank(i), HueOfRank(NextRank(i, n))), n),
                      Degrees(360))

\* C18, amended: on n cliques, 1 <= n <= 12, every clique id has exactly one rank
\* 0..n-1, its hue is the double-precision value of rank / n * 360, the hues are
\* pairwise distinct, and two cliques adjacent in the sorted order, the last and
\* the first included, have hues at a circular distance of at most 360 / n degrees
\* plus a rounding error of 2^-43 degrees
C18_HueStepWithinRounding ==
    pc = "colored" =>
        LET n == Cardinality(DOMAIN cliqueMemberships.allCliques) IN
        /\ RanksAndHues
        /\ \A i \in 1..n :
               leqNat(timesNat(CircularDistance(HueOfRank(i), HueOfRank(NextRank(i, n))), n),
                      addNat(Degrees(360), natOf(n * 2^21)))

\* seven cliques were coloured, in an order that is not the order of their ids, and
\* a step between two adjacent hues is longer than 360 / 7 degrees
C18_Witness ==
    /\ pc = "colored"
    /\ Cardinality(DOMAIN cliqueMemberships.allCliques) = 7
    /\ SortedForColors # SortedSeq(DOMAIN cliqueMemberships.allCliques)
    /\ \E i \in 1..7 :
           lessNat(Degrees(360),
                   timesNat(CircularDistance(HueOfRank(i), HueOfRank(NextRank(i, 7))), 7))

=============================================================================
